---------------------------- MODULE Spec2Model ----------------------------
(***************************************************************************)
(* Verification model of the Raise SDK (client side of the milestone-based *)
(* funding protocol): tier matching, program-address seed derivation, the  *)
(* instruction builders, and the ledger accounts those builders act on.    *)
(*                                                                         *)
(* Byte strings are sequences of integers in 0..255.  A public key is a    *)
(* 32-byte string.  A BN (arbitrary-precision integer of bn.js) is a       *)
(* record [neg, mag] whose mag is the little-endian base-256 magnitude     *)
(* without leading zero digits, so that values up to and beyond 2^64 are   *)
(* represented exactly.                                                    *)
(***************************************************************************)
EXTENDS Integers, Sequences, FiniteSets, TLC

VARIABLES
    tiers,        \* findTierIndex: the tier list (per-lot amounts) passed in
    tierAmount,   \* findTierIndex: the amount passed in
    tierResult,   \* findTierIndex: the value returned (NoCall before a call)
    derivA,       \* address deriver: the most recent derivation
    derivB,       \* address deriver: the derivation before it
    pstate,       \* ledger: project.state
    amountRaised, \* ledger: project.amountRaised
    investmentCount,      \* ledger: project.investmentCount
    consecutiveFailures,  \* ledger: project.consecutiveFailures
    investments,  \* ledger: the investment accounts (one per minted NFT)
    milestones,   \* ledger: the milestone accounts, by milestone index
    voteAccounts, \* ledger: the vote accounts, each with its address
    now,          \* ledger clock (seconds)
    localCount,   \* callers: the investment count each caller last fetched
    lastTx,       \* the instruction set composed last and what became of it
    util,         \* the last call of a utility function, with what it returned
    pivot,        \* ledger: project.pivotCount, project.activePivot, proposal
    pivotTx       \* the pivot instruction composed last and what became of it

tierVars    == <<tiers, tierAmount, tierResult>>
pdaVars     == <<derivA, derivB>>
projectVars == <<pstate, amountRaised, investmentCount, consecutiveFailures,
                 investments>>
voteVars    == <<milestones, voteAccounts, now>>
callerVars  == <<localCount, lastTx>>
pivotVars   == <<pivot, pivotTx>>
ledgerVars  == <<projectVars, voteVars, callerVars, pivotVars>>

vars == <<tierVars, pdaVars, ledgerVars, util>>

-----------------------------------------------------------------------------
(* Bounds of the model *)

MaxTiers  == 3      \* longest tier list explored
MaxAmount == 4      \* largest per-lot amount / investment amount explored
NumKeys   == 2      \* number of distinct public keys explored

-----------------------------------------------------------------------------
(* Tier matching: constants/index.ts findTierIndex *)

NULL   == -1        \* the JavaScript null returned by findTierIndex
NoCall == NULL - 1  \* no call has returned yet

\* for (i = tiers.length - 1; i >= 0; i--) if (amount >= tiers[i].amount) return i
\* `i` is the 0-based JavaScript index; tiers[i] is ts[i + 1] here.
RECURSIVE ScanDown(_, _, _)
ScanDown(ts, amount, i) ==
    IF i < 0 THEN NULL
    ELSE IF amount >= ts[i + 1] THEN i
    ELSE ScanDown(ts, amount, i - 1)

RECURSIVE ScanUp(_, _, _)
ScanUp(ts, amount, i) ==
    IF i >= Len(ts) THEN NULL
    ELSE IF amount >= ts[i + 1] THEN i
    ELSE ScanUp(ts, amount, i + 1)

findTierIndex_lowest(ts, amount) == ScanUp(ts, amount, 0)

findTierIndex(ts, amount) == ScanDown(ts, amount, Len(ts) - 1)

IsSortedAsc(ts) == \A i \in 1..(Len(ts) - 1) : ts[i] <= ts[i + 1]

TierLists == UNION { [1..n -> 1..MaxAmount] : n \in 0..MaxTiers }

SortedTierLists == { ts \in TierLists : IsSortedAsc(ts) }

TierInit ==
    /\ tiers = <<>>
    /\ tierAmount = 0
    /\ tierResult = NoCall

\* The caller prepares a tier list (project.tiers.slice(0, tierCount), kept
\* sorted ascending by the program).
ChooseTiers ==
    /\ \E ts \in SortedTierLists : tiers' = ts
    /\ tierAmount' = 0
    /\ tierResult' = NoCall
    /\ UNCHANGED <<pdaVars, ledgerVars, util>>

CallFindTierIndex ==
    /\ \E a \in 0..(MaxAmount + 1) :
          /\ tierAmount' = a
          /\ tierResult' = findTierIndex(tiers, a)
    /\ UNCHANGED <<tiers, pdaVars, ledgerVars, util>>

-----------------------------------------------------------------------------
(* Address deriver: pdas/index.ts and the SEEDS table of constants/index.ts *)

\* "project"
SEEDS_PROJECT == <<112, 114, 111, 106, 101, 99, 116>>
\* "milestone"
SEEDS_MILESTONE == <<109, 105, 108, 101, 115, 116, 111, 110, 101>>
\* "investment"
SEEDS_INVESTMENT == <<105, 110, 118, 101, 115, 116, 109, 101, 110, 116>>
\* "vote"
SEEDS_VOTE == <<118, 111, 116, 101>>
\* "escrow"
SEEDS_ESCROW == <<101, 115, 99, 114, 111, 119>>
\* "pivot_proposal" (declared in SEEDS; getPivotProposalPDA uses SEEDS_PIVOT)
SEEDS_PIVOT_PROPOSAL == <<112, 105, 118, 111, 116, 95, 112, 114, 111, 112, 111, 115, 97, 108>>
\* "milestone" used where "pivot" belongs
SEEDS_PIVOT_asMilestone == SEEDS_MILESTONE
\* "pivot"
SEEDS_PIVOT == <<112, 105, 118, 111, 116>>
\* "tge_escrow"
SEEDS_TGE_ESCROW == <<116, 103, 101, 95, 101, 115, 99, 114, 111, 119>>
\* "tge_escrow_vault"
SEEDS_TGE_ESCROW_VAULT == <<116, 103, 101, 95, 101, 115, 99, 114, 111, 119, 95, 118, 97, 117, 108, 116>>
\* "scam_report"
SEEDS_SCAM_REPORT == <<115, 99, 97, 109, 95, 114, 101, 112, 111, 114, 116>>
\* "admin-config"
SEEDS_ADMIN_CONFIG == <<97, 100, 109, 105, 110, 45, 99, 111, 110, 102, 105, 103>>
\* "nft_mint"
SEEDS_NFT_MINT == <<110, 102, 116, 95, 109, 105, 110, 116>>
\* "authority"
SEEDS_AUTHORITY == <<97, 117, 116, 104, 111, 114, 105, 116, 121>>
\* string literals of the token vault and ZTM v2.0 derivations
TOKEN_VAULT == <<116, 111, 107, 101, 110, 95, 118, 97, 117, 108, 116>>
TOKENOMICS == <<116, 111, 107, 101, 110, 111, 109, 105, 99, 115>>
TOKEN_MINT == <<116, 111, 107, 101, 110, 95, 109, 105, 110, 116>>
VAULT_AUTHORITY == <<118, 97, 117, 108, 116, 95, 97, 117, 116, 104, 111, 114, 105, 116, 121>>
INVESTOR_VAULT == <<105, 110, 118, 101, 115, 116, 111, 114, 95, 118, 97, 117, 108, 116>>
FOUNDER_VAULT == <<102, 111, 117, 110, 100, 101, 114, 95, 118, 97, 117, 108, 116>>
LP_TOKEN_VAULT == <<108, 112, 95, 116, 111, 107, 101, 110, 95, 118, 97, 117, 108, 116>>
TREASURY_VAULT == <<116, 114, 101, 97, 115, 117, 114, 121, 95, 118, 97, 117, 108, 116>>
LP_USDC_VAULT == <<108, 112, 95, 117, 115, 100, 99, 95, 118, 97, 117, 108, 116>>
FOUNDER_VESTING == <<102, 111, 117, 110, 100, 101, 114, 95, 118, 101, 115, 116, 105, 110, 103>>

\* PublicKey.toBuffer(): the 32 bytes of a key.  Key 1 begins with the bytes
\* of "_vault", so that a shorter prefix followed by this key begins like a
\* longer prefix; every other key k is 32 bytes of value k.
toBuffer(k) ==
    IF k = 1
    THEN <<95, 118, 97, 117, 108, 116>> \o [i \in 1..26 |-> 0]
    ELSE [i \in 1..32 |-> k]

Keys == 1..NumKeys

\* BN values handed to the derivations.
BN_0      == [neg |-> FALSE, mag |-> <<>>]
BN_1      == [neg |-> FALSE, mag |-> <<1>>]
BN_U64MAX == [neg |-> FALSE, mag |-> [i \in 1..8 |-> 255]]
BN_2P64   == [neg |-> FALSE, mag |-> [i \in 1..9 |-> IF i = 9 THEN 1 ELSE 0]]
BN_NEG1   == [neg |-> TRUE,  mag |-> <<1>>]

BNInputs == {BN_0, BN_1, BN_U64MAX, BN_2P64, BN_NEG1}

\* JavaScript numbers handed in as a 1-byte seed (index, round, pivot count).
U8Inputs == {0, 1, 255, 256, -1}

\* new BN(String(value)) for an integral JavaScript number: sign and
\* base-256 magnitude of the decimal string.
RECURSIVE Digits256(_)
Digits256(n) == IF n = 0 THEN <<>> ELSE <<n % 256>> \o Digits256(n \div 256)

BNFromNumber(n) ==
    IF n < 0 THEN [neg |-> TRUE, mag |-> Digits256(0 - n)]
    ELSE [neg |-> FALSE, mag |-> Digits256(n)]

\* ensureBN: a BN-like value (one with toArrayLike) is returned as it is.
ensureBN(value) == value

\* bn.toArrayLike(Buffer, 'le', length) asserts byteLength <= length ...
fitsArrayLike(bn, length) == Len(bn.mag) <= length

\* ... and writes the magnitude little-endian, zero-padded; the sign is not
\* written.
toArrayLike_be(bn, length) ==
    [i \in 1..length |-> IF length - i + 1 <= Len(bn.mag)
                         THEN bn.mag[length - i + 1] ELSE 0]

toArrayLike(bn, length) ==
    [i \in 1..length |-> IF i <= Len(bn.mag) THEN bn.mag[i] ELSE 0]

\* Buffer.from([n]): the element is stored as an unsigned byte (n mod 256).
BufferFromArray1(n) == <<n % 256>>

Throws      == [ok |-> FALSE, seeds |-> <<>>]
Derived(ss) == [ok |-> TRUE,  seeds |-> ss]

getProjectPDA(projectId) ==
    LET projectIdBN == ensureBN(projectId) IN
    IF fitsArrayLike(projectIdBN, 8)
    THEN Derived(<<SEEDS_PROJECT, toArrayLike(projectIdBN, 8)>>)
    ELSE Throws

getEscrowPDA(projectId) ==
    LET projectIdBN == ensureBN(projectId) IN
    IF fitsArrayLike(projectIdBN, 8)
    THEN Derived(<<SEEDS_ESCROW, toArrayLike(projectIdBN, 8)>>)
    ELSE Throws

getMilestonePDA(projectPda, milestoneIndex) ==
    Derived(<<SEEDS_MILESTONE, toBuffer(projectPda), BufferFromArray1(milestoneIndex)>>)

getInvestmentPDA(projectPda, nftMint) ==
    Derived(<<SEEDS_INVESTMENT, toBuffer(projectPda), toBuffer(nftMint)>>)

getVotePDA_noRound(milestonePda, voterKey, votingRound) ==
    Derived(<<SEEDS_VOTE, toBuffer(milestonePda), toBuffer(voterKey)>>)

getVotePDA(milestonePda, voterKey, votingRound) ==
    Derived(<<SEEDS_VOTE, toBuffer(milestonePda), toBuffer(voterKey),
              BufferFromArray1(votingRound)>>)

getPivotProposalPDA(projectPda, pivotCount) ==
    Derived(<<SEEDS_PIVOT, toBuffer(projectPda), BufferFromArray1(pivotCount)>>)

getTgeEscrowPDA(projectPda) == Derived(<<SEEDS_TGE_ESCROW, toBuffer(projectPda)>>)

getTgeEscrowVaultPDA(projectPda) ==
    Derived(<<SEEDS_TGE_ESCROW_VAULT, toBuffer(projectPda)>>)

getTokenVaultPDA(projectPda) == Derived(<<TOKEN_VAULT, toBuffer(projectPda)>>)

getScamReportPDA(projectPda, nftMint) ==
    Derived(<<SEEDS_SCAM_REPORT, toBuffer(projectPda), toBuffer(nftMint)>>)

getAdminConfigPDA == Derived(<<SEEDS_ADMIN_CONFIG>>)

getNftMintPDA(projectId, investor, count) ==
    LET projectIdBN == ensureBN(projectId)
        countBN     == ensureBN(count)
    IN  IF fitsArrayLike(projectIdBN, 8) /\ fitsArrayLike(countBN, 8)
        THEN Derived(<<SEEDS_NFT_MINT, toArrayLike(projectIdBN, 8),
                       toBuffer(investor), toArrayLike(countBN, 8)>>)
        ELSE Throws

getProgramAuthorityPDA == Derived(<<SEEDS_AUTHORITY>>)

getTokenomicsPDA(projectPda)     == Derived(<<TOKENOMICS, toBuffer(projectPda)>>)
getTokenMintPDA(projectPda)      == Derived(<<TOKEN_MINT, toBuffer(projectPda)>>)
getVaultAuthorityPDA(projectPda) == Derived(<<VAULT_AUTHORITY, toBuffer(projectPda)>>)
getInvestorVaultPDA(projectPda)  == Derived(<<INVESTOR_VAULT, toBuffer(projectPda)>>)
getFounderVaultPDA(projectPda)   == Derived(<<FOUNDER_VAULT, toBuffer(projectPda)>>)
getLpTokenVaultPDA(projectPda)   == Derived(<<LP_TOKEN_VAULT, toBuffer(projectPda)>>)
getTreasuryVaultPDA(projectPda)  == Derived(<<TREASURY_VAULT, toBuffer(projectPda)>>)
getLpUsdcVaultPDA(projectPda)    == Derived(<<LP_USDC_VAULT, toBuffer(projectPda)>>)
getFounderVestingPDA(projectPda) == Derived(<<FOUNDER_VESTING, toBuffer(projectPda)>>)

\* The byte string the address function hashes: the seeds, concatenated.
RECURSIVE Concat(_)
Concat(ss) == IF ss = <<>> THEN <<>> ELSE Head(ss) \o Concat(Tail(ss))

\* One recorded call of a derivation: which function, its arguments, whether
\* it returned, and the seeds it handed to findProgramAddressSync.
Call(kind, args, res) ==
    [kind |-> kind, args |-> args, ok |-> res.ok, seeds |-> res.seeds]

NoDeriv == [kind |-> "none", args |-> <<>>, ok |-> FALSE, seeds |-> <<>>]

PdaInit ==
    /\ derivA = NoDeriv
    /\ derivB = NoDeriv

DeriveProject ==
    \E id \in BNInputs :
        /\ derivA' = Call("project", <<id>>, getProjectPDA(id))
        /\ derivB' = derivA
        /\ UNCHANGED <<tierVars, ledgerVars, util>>

DeriveEscrow ==
    \E id \in BNInputs :
        /\ derivA' = Call("escrow", <<id>>, getEscrowPDA(id))
        /\ derivB' = derivA
        /\ UNCHANGED <<tierVars, ledgerVars, util>>

DeriveMilestone ==
    \E p \in Keys, i \in U8Inputs :
        /\ derivA' = Call("milestone", <<p, i>>, getMilestonePDA(p, i))
        /\ derivB' = derivA
        /\ UNCHANGED <<tierVars, ledgerVars, util>>

DeriveInvestment ==
    \E p \in Keys, m \in Keys :
        /\ derivA' = Call("investment", <<p, m>>, getInvestmentPDA(p, m))
        /\ derivB' = derivA
        /\ UNCHANGED <<tierVars, ledgerVars, util>>

DeriveVote ==
    \E m \in Keys, v \in Keys, r \in U8Inputs :
        /\ derivA' = Call("vote", <<m, v, r>>, getVotePDA(m, v, r))
        /\ derivB' = derivA
        /\ UNCHANGED <<tierVars, ledgerVars, util>>

DerivePivotProposal ==
    \E p \in Keys, c \in U8Inputs :
        /\ derivA' = Call("pivotProposal", <<p, c>>, getPivotProposalPDA(p, c))
        /\ derivB' = derivA
        /\ UNCHANGED <<tierVars, ledgerVars, util>>

DeriveTgeEscrow ==
    \E p \in Keys :
        /\ derivA' = Call("tgeEscrow", <<p>>, getTgeEscrowPDA(p))
        /\ derivB' = derivA
        /\ UNCHANGED <<tierVars, ledgerVars, util>>

DeriveTgeEscrowVault ==
    \E p \in Keys :
        /\ derivA' = Call("tgeEscrowVault", <<p>>, getTgeEscrowVaultPDA(p))
        /\ derivB' = derivA
        /\ UNCHANGED <<tierVars, ledgerVars, util>>

DeriveTokenVault ==
    \E p \in Keys :
        /\ derivA' = Call("tokenVault", <<p>>, getTokenVaultPDA(p))
        /\ derivB' = derivA
        /\ UNCHANGED <<tierVars, ledgerVars, util>>

DeriveScamReport ==
    \E p \in Keys, m \in Keys :
        /\ derivA' = Call("scamReport", <<p, m>>, getScamReportPDA(p, m))
        /\ derivB' = derivA
        /\ UNCHANGED <<tierVars, ledgerVars, util>>

DeriveAdminConfig ==
    /\ derivA' = Call("adminConfig", <<>>, getAdminConfigPDA)
    /\ derivB' = derivA
    /\ UNCHANGED <<tierVars, ledgerVars, util>>

DeriveNftMint ==
    \E id \in BNInputs, inv \in Keys, c \in BNInputs :
        /\ derivA' = Call("nftMint", <<id, inv, c>>, getNftMintPDA(id, inv, c))
        /\ derivB' = derivA
        /\ UNCHANGED <<tierVars, ledgerVars, util>>

DeriveProgramAuthority ==
    /\ derivA' = Call("programAuthority", <<>>, getProgramAuthorityPDA)
    /\ derivB' = derivA
    /\ UNCHANGED <<tierVars, ledgerVars, util>>

DeriveTokenomics ==
    \E p \in Keys :
        /\ derivA' = Call("tokenomics", <<p>>, getTokenomicsPDA(p))
        /\ derivB' = derivA
        /\ UNCHANGED <<tierVars, ledgerVars, util>>

DeriveTokenMint ==
    \E p \in Keys :
        /\ derivA' = Call("tokenMint", <<p>>, getTokenMintPDA(p))
        /\ derivB' = derivA
        /\ UNCHANGED <<tierVars, ledgerVars, util>>

DeriveVaultAuthority ==
    \E p \in Keys :
        /\ derivA' = Call("vaultAuthority", <<p>>, getVaultAuthorityPDA(p))
        /\ derivB' = derivA
        /\ UNCHANGED <<tierVars, ledgerVars, util>>

DeriveInvestorVault ==
    \E p \in Keys :
        /\ derivA' = Call("investorVault", <<p>>, getInvestorVaultPDA(p))
        /\ derivB' = derivA
        /\ UNCHANGED <<tierVars, ledgerVars, util>>

DeriveFounderVault ==
    \E p \in Keys :
        /\ derivA' = Call("founderVault", <<p>>, getFounderVaultPDA(p))
        /\ derivB' = derivA
        /\ UNCHANGED <<tierVars, ledgerVars, util>>

DeriveLpTokenVault ==
    \E p \in Keys :
        /\ derivA' = Call("lpTokenVault", <<p>>, getLpTokenVaultPDA(p))
        /\ derivB' = derivA
        /\ UNCHANGED <<tierVars, ledgerVars, util>>

DeriveTreasuryVault ==
    \E p \in Keys :
        /\ derivA' = Call("treasuryVault", <<p>>, getTreasuryVaultPDA(p))
        /\ derivB' = derivA
        /\ UNCHANGED <<tierVars, ledgerVars, util>>

DeriveLpUsdcVault ==
    \E p \in Keys :
        /\ derivA' = Call("lpUsdcVault", <<p>>, getLpUsdcVaultPDA(p))
        /\ derivB' = derivA
        /\ UNCHANGED <<tierVars, ledgerVars, util>>

DeriveFounderVesting ==
    \E p \in Keys :
        /\ derivA' = Call("founderVesting", <<p>>, getFounderVestingPDA(p))
        /\ derivB' = derivA
        /\ UNCHANGED <<tierVars, ledgerVars, util>>

-----------------------------------------------------------------------------
(* The ledger program and the instruction composer: one project *)

\* Bounds of the ledger model.
FundingGoal    == 10    \* project.fundingGoal
NumMilestones  == 2     \* milestone accounts created for the project
MaxRound       == 1     \* reworks explored together with full tallies
MaxRoundLong   == 256   \* reworks explored with a single vote account

\* constants/index.ts VALIDATION, TIMING, GOVERNANCE
MAX_FUNDING_BUFFER_PERCENT           == 110
VOTING_PERIOD_SECONDS                == 1209600
SCAM_THRESHOLD_PERCENT               == 30
MILESTONE_APPROVAL_THRESHOLD_PERCENT == 50

\* The project's tier table, ascending by per-lot amount, with each tier's
\* vote multiplier (100 = 1.0x).
TierAmounts        == <<2, 6>>
TierVoteMultiplier == <<100, 150>>

\* Amounts handed to invest: below the lowest tier, each tier's amount, and
\* one above the highest.
InvestAmounts ==
    {TierAmounts[1] - 1, TierAmounts[1], TierAmounts[2], TierAmounts[2] + 1}

PROJECT_ID       == BN_1
MilestoneIndexes == 0..(NumMilestones - 1)
Callers          == {1, 2}    \* the investors calling invest concurrently
Investors        == 1..3      \* the investors of the funded project

\* The address findProgramAddressSync returns for the project's seeds, as a
\* public key usable as a seed of further derivations.
ProjectAddress == 200

\* The address of a derived milestone account as a public key: distinct for
\* distinct seeds, so one key per seed byte.
MilestoneAddress(d) == ProjectAddress + 1 + d.seeds[3][1]

\* Index of the milestone account stored at the address of derivation d
\* (NULL when the ledger holds no milestone account there).
MilestoneAt(d) ==
    IF \E i \in MilestoneIndexes : getMilestonePDA(ProjectAddress, i).seeds = d.seeds
    THEN CHOOSE i \in MilestoneIndexes :
            getMilestonePDA(ProjectAddress, i).seeds = d.seeds
    ELSE NULL

NewMilestone(st) ==
    [state |-> st, yesVotes |-> 0, noVotes |-> 0, totalWeight |-> 0,
     voterCount |-> 0, votingRound |-> 0, votingEndsAt |-> 0,
     deadline |-> 0, extensionCount |-> 0]

NoTx == [op |-> "none", signer |-> 0, n |-> 0, at |-> 0, amount |-> 0,
         raised |-> 0, result |-> "none"]

Tx(op, signer, n, at, amount, raised, result) ==
    [op |-> op, signer |-> signer, n |-> n, at |-> at, amount |-> amount,
     raised |-> raised, result |-> result]

\* amount * tier.voteMultiplier / 100, truncating.
voteWeight(amount) ==
    (amount * TierVoteMultiplier[findTierIndex(TierAmounts, amount) + 1]) \div 100

Investment(investor, count, amount) ==
    [investor |-> investor,
     nftMint  |-> getNftMintPDA(PROJECT_ID, investor, BNFromNumber(count)).seeds,
     amount   |-> amount,
     voteWeight |-> voteWeight(amount),
     tier     |-> findTierIndex(TierAmounts, amount)]

\* A project just created by initializeProject, its milestones created.
FundInit ==
    /\ pstate = "draft"
    /\ amountRaised = 0
    /\ investmentCount = 0
    /\ consecutiveFailures = 0
    /\ investments = {}
    /\ milestones = [i \in MilestoneIndexes |->
                        NewMilestone(IF i = 0 THEN "approved" ELSE "proposed")]
    /\ voteAccounts = {}
    /\ now = 0
    /\ localCount = [c \in Callers |-> NULL]
    /\ lastTx = NoTx

\* The project after three investments (6, 2, 2) completed its funding and
\* work on the first milestone began.
VoteInit ==
    /\ pstate = "inProgress"
    /\ amountRaised = FundingGoal
    /\ investmentCount = 3
    /\ consecutiveFailures = 0
    /\ investments = {Investment(1, 0, TierAmounts[2]),
                      Investment(2, 1, TierAmounts[1]),
                      Investment(3, 2, TierAmounts[1])}
    /\ milestones = [i \in MilestoneIndexes |->
                        NewMilestone(IF i = 0 THEN "inProgress" ELSE "approved")]
    /\ voteAccounts = {}
    /\ now = 0
    /\ localCount = [c \in Callers |-> NULL]
    /\ lastTx = NoTx

(* Project lifecycle *)

\* submitForApproval: Draft -> PendingApproval
SubmitForApproval ==
    /\ pstate = "draft"
    /\ pstate' = "pendingApproval"
    /\ lastTx' = Tx("submitForApproval", 0, 0, 0, 0, amountRaised, "ok")
    /\ UNCHANGED <<amountRaised, investmentCount, consecutiveFailures,
                   investments, voteVars, localCount, tierVars, pdaVars, util,
                   pivotVars>>

ApproveProject_fromDraft ==
    /\ pstate \in {"draft", "pendingApproval"}
    /\ pstate' = "open"
    /\ lastTx' = Tx("approveProject", 0, 0, 0, 0, amountRaised, "ok")
    /\ UNCHANGED <<amountRaised, investmentCount, consecutiveFailures,
                   investments, voteVars, localCount, tierVars, pdaVars, util,
                   pivotVars>>

\* approveProject (admin): PendingApproval -> Open
ApproveProject ==
    /\ pstate = "pendingApproval"
    /\ pstate' = "open"
    /\ lastTx' = Tx("approveProject", 0, 0, 0, 0, amountRaised, "ok")
    /\ UNCHANGED <<amountRaised, investmentCount, consecutiveFailures,
                   investments, voteVars, localCount, tierVars, pdaVars, util,
                   pivotVars>>

\* The caller reads the project account (fetchProject) and keeps the
\* investment count it saw for the invest call that follows.
FetchProject ==
    \E c \in Callers :
        /\ localCount' = [localCount EXCEPT ![c] = investmentCount]
        /\ UNCHANGED <<projectVars, voteVars, lastTx, tierVars, pdaVars, util,
                   pivotVars>>

(* Investing *)

\* instructions/index.ts invest: the accounts the composer derives for the
\* invest instruction.  args.investmentCount is a JavaScript number, which
\* ensureBN turns into a BN; the first milestone is always index 0.
invest(investor, amount, count) ==
    [amount         |-> amount,
     investor       |-> investor,
     project        |-> getProjectPDA(PROJECT_ID),
     nftMint        |-> getNftMintPDA(PROJECT_ID, investor, BNFromNumber(count)),
     firstMilestone |-> getMilestonePDA(ProjectAddress, 0)]

\* The ledger's answer to an invest instruction: the error it rejects the
\* instruction with, or "ok".
InvestOutcome(ix) ==
    IF pstate # "open" THEN "ProjectNotInOpenState"
    ELSE IF ix.nftMint.seeds #
            getNftMintPDA(PROJECT_ID, ix.investor, BNFromNumber(investmentCount)).seeds
         THEN "ConstraintSeeds"
    ELSE IF findTierIndex(TierAmounts, ix.amount) = NULL
         THEN "InvestmentBelowMinimum"
    ELSE IF (amountRaised + ix.amount) * 100 >
                FundingGoal * MAX_FUNDING_BUFFER_PERCENT
         THEN "FundingGoalExceeded"
    ELSE "ok"

\* The caller invests with the investment count it fetched (one fetch per
\* invest call); the instruction is executed by the ledger atomically.
Invest ==
    \E c \in Callers, amount \in InvestAmounts :
        /\ localCount[c] # NULL
        /\ LET ix     == invest(c, amount, localCount[c])
               res    == InvestOutcome(ix)
               raised == amountRaised + amount
               funded == raised >= FundingGoal
               first  == MilestoneAt(ix.firstMilestone)
           IN  /\ ix.nftMint.ok
               /\ lastTx' = Tx("invest", c, localCount[c], investmentCount,
                               amount, amountRaised, res)
               /\ IF res = "ok"
                  THEN /\ amountRaised' = raised
                       /\ investmentCount' = investmentCount + 1
                       /\ investments' = investments \cup
                              {[Investment(c, investmentCount, amount)
                                    EXCEPT !.nftMint = ix.nftMint.seeds]}
                       /\ pstate' = IF funded THEN "funded" ELSE pstate
                       /\ milestones' =
                              IF funded /\ first # NULL
                              THEN [milestones EXCEPT ![first].state = "inProgress"]
                              ELSE milestones
                  ELSE UNCHANGED <<amountRaised, investmentCount, investments,
                                   pstate, milestones>>
        /\ localCount' = [localCount EXCEPT ![c] = NULL]
        /\ UNCHANGED <<consecutiveFailures, voteAccounts, now,
                       tierVars, pdaVars, util,
                   pivotVars>>

\* Funded -> InProgress
StartProgress ==
    /\ pstate = "funded"
    /\ pstate' = "inProgress"
    /\ lastTx' = Tx("startProgress", 0, 0, 0, 0, amountRaised, "ok")
    /\ UNCHANGED <<amountRaised, investmentCount, consecutiveFailures,
                   investments, voteVars, localCount, tierVars, pdaVars, util,
                   pivotVars>>

\* checkAbandonment: InProgress -> Abandoned once the ledger finds the
\* project inactive.
CheckAbandonment ==
    /\ pstate = "inProgress"
    /\ pstate' = "abandoned"
    /\ lastTx' = Tx("checkAbandonment", 0, 0, 0, 0, amountRaised, "ok")
    /\ UNCHANGED <<amountRaised, investmentCount, consecutiveFailures,
                   investments, voteVars, localCount, tierVars, pdaVars, util,
                   pivotVars>>

\* InProgress -> Completed | Failed | TGEFailed | Cancelled
CloseProject ==
    \E t \in {"completed", "failed", "tgeFailed", "cancelled"} :
        /\ pstate = "inProgress"
        /\ pstate' = t
        /\ lastTx' = Tx("closeProject", 0, 0, 0, 0, amountRaised, "ok")
        /\ UNCHANGED <<amountRaised, investmentCount, consecutiveFailures,
                       investments, voteVars, localCount, tierVars, pdaVars, util,
                   pivotVars>>

(* Milestone voting *)

\* submitMilestone: InProgress -> UnderReview, opening the voting window.
SubmitMilestone ==
    \E i \in MilestoneIndexes :
        /\ pstate = "inProgress"
        /\ milestones[i].state = "inProgress"
        /\ milestones' = [milestones EXCEPT
                             ![i].state = "underReview",
                             ![i].votingEndsAt = now + VOTING_PERIOD_SECONDS]
        /\ lastTx' = Tx("submitMilestone", 0, i, 0, 0, amountRaised, "ok")
        /\ UNCHANGED <<projectVars, voteAccounts, now, localCount,
                       tierVars, pdaVars, util,
                   pivotVars>>

\* x ?? d
Coalesce(x, d) == IF x = NULL THEN d ELSE x

\* The ledger's answer to a voteOnMilestone instruction for milestone i with
\* the vote account at address `vote`.
VoteOutcome(i, vote) ==
    IF milestones[i].state # "underReview" THEN "MilestoneNotUnderReview"
    ELSE IF now >= milestones[i].votingEndsAt THEN "VotingPeriodEnded"
    ELSE IF \E a \in voteAccounts : a.address = vote.seeds THEN "AlreadyVoted"
    ELSE "ok"

\* instructions/index.ts voteOnMilestone: fetch the milestone, derive the
\* vote address from the milestone address, the voter and the fetched
\* voting round (0 when absent); the accounts of the instruction.
voteOnMilestone(voter, i, choice) ==
    LET milestonePda == getMilestonePDA(ProjectAddress, i)
        milestone    == milestones[MilestoneAt(milestonePda)]
        votingRound  == Coalesce(milestone.votingRound, 0)
    IN  [choice      |-> choice,
         voter       |-> voter,
         milestone   |-> milestonePda,
         votingRound |-> votingRound,
         vote        |-> getVotePDA(MilestoneAddress(milestonePda), voter,
                                    votingRound)]

\* A voter votes on a milestone under review with one of their investments;
\* the ledger executes the instruction atomically.  `cap` bounds the number
\* of vote accounts the model lets the ledger hold.
VoteOnMilestone(voters, cap) ==
    \E v \in voters, i \in MilestoneIndexes, choice \in {"good", "bad"},
       inv \in investments :
        /\ inv.investor = v
        /\ milestones[i].state = "underReview"
        /\ LET ix  == voteOnMilestone(v, i, choice)
               res == VoteOutcome(i, ix.vote)
               w   == inv.voteWeight
           IN  /\ res = "ok" => Cardinality(voteAccounts) < cap
               /\ lastTx' = Tx("voteOnMilestone", v, ix.votingRound,
                               milestones[i].votingRound, 0, amountRaised, res)
               /\ IF res = "ok"
                  THEN /\ voteAccounts' = voteAccounts \cup
                              {[address |-> ix.vote.seeds, milestone |-> i,
                                voter |-> v, choice |-> choice, weight |-> w,
                                round |-> milestones[i].votingRound]}
                       /\ milestones' = [milestones EXCEPT
                              ![i].yesVotes = @ + (IF choice = "good" THEN w ELSE 0),
                              ![i].noVotes  = @ + (IF choice = "bad" THEN w ELSE 0),
                              ![i].totalWeight = @ + w,
                              ![i].voterCount  = @ + 1]
                  ELSE UNCHANGED <<voteAccounts, milestones>>
        /\ UNCHANGED <<projectVars, now, localCount, tierVars, pdaVars, util,
                   pivotVars>>

\* The threshold test of finalizeVoting: yesVotes / totalWeight against
\* MILESTONE_APPROVAL_THRESHOLD_PERCENT, in integer arithmetic.
votePassed(yes, total) ==
    yes * 100 > MILESTONE_APPROVAL_THRESHOLD_PERCENT * total

\* finalizeVoting on a milestone under review: UnderReview -> Passed | Failed
\* once the window is over, refused before.
FinalizeVoting ==
    \E i \in MilestoneIndexes :
        LET m   == milestones[i]
            res == IF m.state # "underReview" THEN "MilestoneNotUnderReview"
                   ELSE IF now < m.votingEndsAt THEN "VotingPeriodNotEnded"
                   ELSE "ok"
            passed == votePassed(m.yesVotes, m.totalWeight)
        IN  /\ m.state = "underReview"
            /\ lastTx' = Tx("finalizeVoting", 0, i, 0, 0, amountRaised, res)
            /\ IF res = "ok"
               THEN /\ milestones' = [milestones EXCEPT ![i].state =
                                         IF passed THEN "passed" ELSE "failed"]
                    /\ consecutiveFailures' =
                           IF passed THEN 0 ELSE consecutiveFailures + 1
               ELSE UNCHANGED <<milestones, consecutiveFailures>>
            /\ UNCHANGED <<pstate, amountRaised, investmentCount, investments,
                           voteAccounts, now, localCount, tierVars, pdaVars, util,
                   pivotVars>>

\* The milestone account after a rework.
Reworked_keepTallies(m) ==
    [m EXCEPT !.state = "inProgress", !.votingRound = @ + 1]

Reworked(m) ==
    [m EXCEPT !.state = "inProgress",
              !.yesVotes = 0,
              !.noVotes = 0,
              !.totalWeight = 0,
              !.voterCount = 0,
              !.votingEndsAt = 0,
              !.votingRound = @ + 1]

\* resubmitMilestone: Failed -> InProgress with the tallies cleared and the
\* voting round incremented; consecutiveFailures is left alone.  Refused on
\* a milestone that is not Failed.  `cap` bounds the voting round.
ResubmitMilestone(cap) ==
    \E i \in MilestoneIndexes :
        LET res == IF milestones[i].state = "failed" THEN "ok"
                   ELSE "InvalidStateTransition"
        IN  /\ res = "ok" => milestones[i].votingRound < cap
            /\ milestones' = IF res = "ok"
                             THEN [milestones EXCEPT ![i] = Reworked(@)]
                             ELSE milestones
            /\ lastTx' = Tx("resubmitMilestone", 0, i, 0, 0, amountRaised, res)
            /\ UNCHANGED <<projectVars, voteAccounts, now, localCount,
                           tierVars, pdaVars, util,
                   pivotVars>>

\* The ledger clock advances while a voting window is open.
TickSeconds == VOTING_PERIOD_SECONDS + 1

Tick ==
    /\ \E i \in MilestoneIndexes :
          /\ milestones[i].state = "underReview"
          /\ now < milestones[i].votingEndsAt
    /\ now' = now + TickSeconds
    /\ UNCHANGED <<projectVars, milestones, voteAccounts, callerVars,
                   tierVars, pdaVars, util,
                   pivotVars>>

(* Milestone deadlines *)

MaxClockSteps == 1      \* steps of the ledger clock explored with deadlines

\* instructions/index.ts deadline constants
MIN_DEADLINE_DURATION_SECONDS_PROD == 604800
MIN_DEADLINE_DURATION_SECONDS_DEV  == 60
MAX_DEADLINE_DURATION_SECONDS      == 31536000

\* constants/index.ts VALIDATION.MAX_MILESTONES
MAX_MILESTONES == 10

\* extendMilestoneDeadline: "max 3 extensions per milestone"
MAX_DEADLINE_EXTENSIONS == 3

\* The milestone deadline operations are explored on the first milestone.
DeadlineMilestones == {0}

\* Deadlines handed to setMilestoneDeadline, as seconds from now.
SetOffsets ==
    {MIN_DEADLINE_DURATION_SECONDS_PROD - 1, MIN_DEADLINE_DURATION_SECONDS_PROD,
     MAX_DEADLINE_DURATION_SECONDS, MAX_DEADLINE_DURATION_SECONDS + 1}

\* New deadlines handed to extendMilestoneDeadline, as seconds after the
\* current deadline.
ExtendOffsets == {0, MIN_DEADLINE_DURATION_SECONDS_DEV}

\* setMilestoneDeadline: the founder commits to a deadline between the
\* minimum duration and one year from now, on a milestone that is Proposed,
\* Approved or InProgress.
SetMilestoneDeadline ==
    \E i \in DeadlineMilestones, off \in SetOffsets :
        LET deadline == now + off
            res == IF milestones[i].state \notin
                          {"proposed", "approved", "inProgress"}
                   THEN "InvalidStateTransition"
                   ELSE IF deadline < now + MIN_DEADLINE_DURATION_SECONDS_PROD
                   THEN "DeadlineTooSoon"
                   ELSE IF deadline > now + MAX_DEADLINE_DURATION_SECONDS
                   THEN "DeadlineTooFar"
                   ELSE "ok"
        IN  /\ milestones' = IF res = "ok"
                             THEN [milestones EXCEPT ![i].deadline = deadline]
                             ELSE milestones
            /\ lastTx' = Tx("setMilestoneDeadline", 0, i, deadline, 0,
                            amountRaised, res)
            /\ UNCHANGED <<projectVars, voteAccounts, now, localCount,
                           tierVars, pdaVars, util,
                   pivotVars>>

\* extendMilestoneDeadline: before the current deadline passes the founder
\* may move it later, at most MAX_DEADLINE_EXTENSIONS times per milestone.
ExtendMilestoneDeadline ==
    \E i \in DeadlineMilestones, off \in ExtendOffsets :
        LET m           == milestones[i]
            newDeadline == m.deadline + off
            res == IF m.deadline = 0 THEN "DeadlineNotSet"
                   ELSE IF m.extensionCount >= MAX_DEADLINE_EXTENSIONS
                   THEN "DeadlineExtensionExhausted"
                   ELSE IF now >= m.deadline THEN "DeadlinePassed"
                   ELSE IF newDeadline <= m.deadline THEN "InvalidDeadline"
                   ELSE "ok"
        IN  /\ milestones' = IF res = "ok"
                             THEN [milestones EXCEPT
                                      ![i].deadline = newDeadline,
                                      ![i].extensionCount = @ + 1]
                             ELSE milestones
            /\ lastTx' = Tx("extendMilestoneDeadline", 0, i, newDeadline,
                            m.extensionCount, amountRaised, res)
            /\ UNCHANGED <<projectVars, voteAccounts, now, localCount,
                           tierVars, pdaVars, util,
                   pivotVars>>

\* The ledger clock advances by the minimum deadline duration.
PassTime ==
    /\ now < MaxClockSteps * MIN_DEADLINE_DURATION_SECONDS_PROD
    /\ now' = now + MIN_DEADLINE_DURATION_SECONDS_PROD
    /\ UNCHANGED <<projectVars, milestones, voteAccounts, callerVars,
                   tierVars, pdaVars, util,
                   pivotVars>>

-----------------------------------------------------------------------------
(* Utility functions *)

NoUtil == [fn |-> "none"]

UtilInit == util = NoUtil

MaxDays == 2            \* client clock values explored, in days

\* Date.now() / 1000 as seen by the client.
ClientClocks == {d * 86400 : d \in 0..MaxDays}

RECURSIVE Value256(_)
Value256(mag) == IF mag = <<>> THEN 0 ELSE mag[1] + 256 * Value256(Tail(mag))

\* bn.toNumber(): asserts that the magnitude has at most 53 bits, then
\* returns the signed value.
fits53Bits(bn) ==
    \/ Len(bn.mag) < 7
    \/ Len(bn.mag) = 7 /\ bn.mag[7] < 32

toNumber(bn) == IF bn.neg THEN 0 - Value256(bn.mag) ELSE Value256(bn.mag)

Valid         == [threw |-> FALSE, valid |-> TRUE,  error |-> ""]
Invalid(text) == [threw |-> FALSE, valid |-> FALSE, error |-> text]
Thrown(text)  == [threw |-> TRUE,  valid |-> FALSE, error |-> text]

validateDeadline(deadline, isDev, nowSeconds) ==
    IF ~fits53Bits(deadline)
    THEN Thrown("Number can only safely store up to 53 bits")
    ELSE
    LET deadlineSeconds == toNumber(deadline)
        minDuration == IF isDev THEN MIN_DEADLINE_DURATION_SECONDS_DEV
                       ELSE MIN_DEADLINE_DURATION_SECONDS_PROD
        minDeadline == nowSeconds + minDuration
        maxDeadline == nowSeconds + MAX_DEADLINE_DURATION_SECONDS
    IN  IF deadlineSeconds < minDeadline
        THEN Invalid(IF isDev
                     THEN "Deadline must be at least 60 seconds from now"
                     ELSE "Deadline must be at least 7 days from now")
        ELSE IF deadlineSeconds > maxDeadline
        THEN Invalid("Deadline must be within 1 year from now")
        ELSE Valid

\* Deadlines handed to validateDeadline: each bound of each mode at each
\* clock value, one second inside and outside it, and the ends of the BN
\* inputs.
DeadlineInputs ==
    BNInputs \cup
    { BNFromNumber(c + b + e) :
        c \in ClientClocks,
        b \in {MIN_DEADLINE_DURATION_SECONDS_DEV,
               MIN_DEADLINE_DURATION_SECONDS_PROD,
               MAX_DEADLINE_DURATION_SECONDS},
        e \in {-1, 0, 1} }

ValidateDeadline ==
    \E deadline \in DeadlineInputs, isDev \in BOOLEAN,
       nowSeconds \in ClientClocks :
        /\ util' = [fn |-> "validateDeadline",
                    args |-> <<deadline, isDev, nowSeconds>>,
                    result |-> validateDeadline(deadline, isDev, nowSeconds)]
        /\ UNCHANGED <<tierVars, pdaVars, ledgerVars>>

MaxDelay == 1           \* seconds between computing a deadline and validating it

\* Whole numbers of days handed to calculateDeadline.
DaysInputs == {-1, 0, 1, 7, 8, 365, 366, 1000}

Max(a, b) == IF a >= b THEN a ELSE b
Min(a, b) == IF a <= b THEN a ELSE b

calculateDeadline_uncapped(daysFromNow, isDev, nowSeconds) ==
    LET minDuration == IF isDev THEN MIN_DEADLINE_DURATION_SECONDS_DEV
                       ELSE MIN_DEADLINE_DURATION_SECONDS_PROD
    IN  BNFromNumber(nowSeconds + Max(daysFromNow * 24 * 60 * 60, minDuration))

calculateDeadline(daysFromNow, isDev, nowSeconds) ==
    LET minDuration == IF isDev THEN MIN_DEADLINE_DURATION_SECONDS_DEV
                       ELSE MIN_DEADLINE_DURATION_SECONDS_PROD
        daysInSeconds   == daysFromNow * 24 * 60 * 60
        deadlineSeconds == nowSeconds + Max(daysInSeconds, minDuration)
        maxDeadline     == nowSeconds + MAX_DEADLINE_DURATION_SECONDS
    IN  BNFromNumber(Min(deadlineSeconds, maxDeadline))

minDeadline(isDev, nowSeconds) ==
    LET minDuration == IF isDev THEN MIN_DEADLINE_DURATION_SECONDS_DEV
                       ELSE MIN_DEADLINE_DURATION_SECONDS_PROD
    IN  BNFromNumber(nowSeconds + minDuration + 1)

CalculateDeadline ==
    \E daysFromNow \in DaysInputs, isDev \in BOOLEAN,
       nowSeconds \in ClientClocks :
        /\ util' = [fn |-> "calculateDeadline",
                    args |-> <<daysFromNow, isDev, nowSeconds>>,
                    result |-> calculateDeadline(daysFromNow, isDev, nowSeconds)]
        /\ UNCHANGED <<tierVars, pdaVars, ledgerVars>>

MinDeadline ==
    \E isDev \in BOOLEAN, nowSeconds \in ClientClocks :
        /\ util' = [fn |-> "minDeadline",
                    args |-> <<0, isDev, nowSeconds>>,
                    result |-> minDeadline(isDev, nowSeconds)]
        /\ UNCHANGED <<tierVars, pdaVars, ledgerVars>>

\* The deadline a helper returned is validated in the same mode, the client
\* clock having advanced by up to MaxDelay seconds since.
ValidateComputed ==
    \E delay \in 0..MaxDelay :
        /\ util.fn \in {"calculateDeadline", "minDeadline"}
        /\ LET isDev      == util.args[2]
               nowSeconds == util.args[3] + delay
           IN  util' = [fn |-> "validateDeadline",
                        args |-> <<util.result, isDev, nowSeconds>>,
                        result |-> validateDeadline(util.result, isDev,
                                                    nowSeconds),
                        helper |-> util.fn,
                        days |-> util.args[1],
                        delay |-> delay]
        /\ UNCHANGED <<tierVars, pdaVars, ledgerVars>>

MaxPercentages == 3     \* longest list of milestone percentages explored
MaxSmallAmount == 12    \* percentageOf is explored on every amount up to this

\* Percentage values handed to validateMilestonePercentages.
PercentageValues == {-50, 0, 20, 30, 40, 100, 150}

PercentageLists ==
    UNION { [1..n -> PercentageValues] : n \in 0..MaxPercentages }

\* percentages.reduce((acc, p) => acc + p, 0)
RECURSIVE reduce(_, _)
reduce(percentages, acc) ==
    IF percentages = <<>> THEN acc
    ELSE reduce(Tail(percentages), acc + Head(percentages))

validateMilestonePercentages_atLeast(percentages) ==
    reduce(percentages, 0) >= 100

validateMilestonePercentages(percentages) ==
    reduce(percentages, 0) = 100

ValidateMilestonePercentages ==
    \E percentages \in PercentageLists :
        /\ util' = [fn |-> "validateMilestonePercentages",
                    args |-> percentages,
                    result |-> validateMilestonePercentages(percentages)]
        /\ UNCHANGED <<tierVars, pdaVars, ledgerVars>>

\* BigInt division truncates toward zero.
BigIntDiv(a, b) == IF a < 0 THEN 0 - ((0 - a) \div b) ELSE a \div b

percentageOf_rounded(amount, percentage) ==
    BigIntDiv(amount * (percentage * 100) + 5000, 10000)

\* (amount * BigInt(Math.floor(percentage * 100))) / 10000n, for an integral
\* percentage (percentage * 100 is then integral and Math.floor keeps it).
percentageOf(amount, percentage) ==
    BigIntDiv(amount * (percentage * 100), 10000)

PercentageOfAmounts == 0..MaxSmallAmount \cup {199, 1000, 99999}

PercentageOf ==
    \E amount \in PercentageOfAmounts, percentage \in 0..100 :
        /\ util' = [fn |-> "percentageOf",
                    args |-> <<amount, percentage>>,
                    result |-> percentageOf(amount, percentage)]
        /\ UNCHANGED <<tierVars, pdaVars, ledgerVars>>

-----------------------------------------------------------------------------
(* Instruction composers *)

\* bn.gt(new BN(0))
gtZero_orEqual(bn) == ~bn.neg

gtZero(bn) == ~bn.neg /\ bn.mag # <<>>

\* A public key that is no milestone address of the project.
OtherKey == ProjectAddress - 1

\* Indices a project's milestones can have.
ValidMilestoneIndexes == 0..(MAX_MILESTONES - 1)

NextDeadlineInputs ==
    {BN_0, BN_1, BN_NEG1, BN_U64MAX,
     BNFromNumber(MIN_DEADLINE_DURATION_SECONDS_PROD)}

\* claimMilestoneFunds: the claimed milestone and the next-milestone account
\* among the accounts of the instruction (NULL for none).
claimMilestoneFunds(milestoneIndex, nextMilestoneDeadline, nextMilestonePda) ==
    LET milestonePda == getMilestonePDA(ProjectAddress, milestoneIndex)
        next == IF nextMilestonePda # NULL THEN nextMilestonePda
                ELSE IF gtZero(nextMilestoneDeadline)
                THEN MilestoneAddress(
                         getMilestonePDA(ProjectAddress, milestoneIndex + 1))
                ELSE NULL
    IN  [milestone     |-> MilestoneAddress(milestonePda),
         nextMilestone |-> next]

ClaimMilestoneFunds ==
    \E milestoneIndex \in ValidMilestoneIndexes,
       nextMilestoneDeadline \in NextDeadlineInputs,
       nextMilestonePda \in {NULL, OtherKey, ProjectAddress + 1} :
        /\ util' = [fn |-> "claimMilestoneFunds",
                    args |-> <<milestoneIndex, nextMilestoneDeadline,
                               nextMilestonePda>>,
                    result |-> claimMilestoneFunds(milestoneIndex,
                                  nextMilestoneDeadline, nextMilestonePda)]
        /\ UNCHANGED <<tierVars, pdaVars, ledgerVars>>

MaxBatch == 11          \* longest batch handed to distributeTokens

AccountMeta(pubkey, isSigner, isWritable) ==
    [pubkey |-> pubkey, isSigner |-> isSigner, isWritable |-> isWritable]

\* The investment account and the investor's token account of investor k.
InvestmentKey(k)   == ProjectAddress + 300 + k
TokenAccountKey(k) == ProjectAddress + 600 + k

\* Batches of distinct investments, in any rotation of their order.
Batches ==
    { [i \in 1..n |-> [investmentPda |-> InvestmentKey((i + r) % (MaxBatch + 1)),
                       investorTokenAccount |->
                           TokenAccountKey((i + r) % (MaxBatch + 1))]] :
        n \in 0..MaxBatch, r \in 0..MaxBatch }

\* args.investments.flatMap((inv) => [investment meta, token account meta])
flatMap(batch) ==
    [j \in 1..(2 * Len(batch)) |->
        IF j % 2 = 1
        THEN AccountMeta(batch[(j + 1) \div 2].investmentPda, FALSE, TRUE)
        ELSE AccountMeta(batch[j \div 2].investorTokenAccount, FALSE, TRUE)]

\* distributeTokens: the remaining accounts of the instruction, which is
\* handed to the ledger writer (.rpc()).
distributeTokens(batch) ==
    [remainingAccounts |-> flatMap(batch), submitted |-> TRUE]

DistributeTokens ==
    \E batch \in Batches :
        /\ util' = [fn |-> "distributeTokens", args |-> <<batch>>,
                    result |-> distributeTokens(batch)]
        /\ UNCHANGED <<tierVars, pdaVars, ledgerVars>>

\* claimRefund: one read-only milestone account per index below
\* args.milestoneCount ?? 1.
claimRefund_fromOne(milestoneCount) ==
    LET count == Coalesce(milestoneCount, 1)
    IN  [remainingAccounts |->
            [i \in 1..count |->
                AccountMeta(MilestoneAddress(getMilestonePDA(ProjectAddress, i)),
                            FALSE, FALSE)],
         submitted |-> TRUE]

claimRefund(milestoneCount) ==
    LET count == Coalesce(milestoneCount, 1)
    IN  [remainingAccounts |->
            [i \in 1..count |->
                AccountMeta(MilestoneAddress(
                                getMilestonePDA(ProjectAddress, i - 1)),
                            FALSE, FALSE)],
         submitted |-> TRUE]

ClaimRefund ==
    \E milestoneCount \in {NULL} \cup 0..MAX_MILESTONES :
        /\ util' = [fn |-> "claimRefund", args |-> <<milestoneCount>>,
                    result |-> claimRefund(milestoneCount)]
        /\ UNCHANGED <<tierVars, pdaVars, ledgerVars>>

-----------------------------------------------------------------------------
(* JavaScript numbers: IEEE 754 binary64, round to nearest, ties to even *)

\* Natural numbers of any size as sequences of 15-bit limbs, least
\* significant first, without leading zero limbs.
Limb == 2^15

RECURSIVE LimbsOf(_)
LimbsOf(n) == IF n = 0 THEN <<>> ELSE <<n % Limb>> \o LimbsOf(n \div Limb)

RECURSIVE IntOf(_)
IntOf(a) == IF a = <<>> THEN 0 ELSE a[1] + Limb * IntOf(Tail(a))

RECURSIVE Trim(_)
Trim(a) ==
    IF a # <<>> /\ a[Len(a)] = 0 THEN Trim(SubSeq(a, 1, Len(a) - 1)) ELSE a

\* Number of bits of a (0 for zero)
BitLen(a) ==
    IF a = <<>> THEN 0
    ELSE 15 * (Len(a) - 1)
           + (CHOOSE k \in 1..15 : 2^(k - 1) <= a[Len(a)] /\ a[Len(a)] < 2^k)

\* Bit j of a, counted from 0
BitAt(a, j) ==
    IF j \div 15 + 1 > Len(a) THEN 0
    ELSE (a[j \div 15 + 1] \div 2^(j % 15)) % 2

\* a mod 2^s = 0
LowBitsZero(a, s) ==
    /\ \A i \in 1..Len(a) : i <= s \div 15 => a[i] = 0
    /\ s \div 15 + 1 <= Len(a) => a[s \div 15 + 1] % 2^(s % 15) = 0

\* a * k + c for small naturals k and c
RECURSIVE MulFrom(_, _, _, _)
MulFrom(a, k, i, c) ==
    IF i > Len(a) THEN LimbsOf(c)
    ELSE <<(a[i] * k + c) % Limb>>
            \o MulFrom(a, k, i + 1, (a[i] * k + c) \div Limb)

MulSmall(a, k) == Trim(MulFrom(a, k, 1, 0))

AddOne(a) == Trim(MulFrom(a, 1, 1, 1))

\* Long division of a by a small natural d, from the top limb down:
\* quotient and remainder.
RECURSIVE DivFrom(_, _, _, _)
DivFrom(a, d, i, r) ==
    IF i = 0 THEN [q |-> <<>>, r |-> r]
    ELSE LET cur  == r * Limb + a[i]
             rest == DivFrom(a, d, i - 1, cur % d)
         IN  [q |-> rest.q \o <<cur \div d>>, r |-> rest.r]

DivSmall(a, d) ==
    LET res == DivFrom(a, d, Len(a), 0)
    IN  [q |-> Trim(res.q), r |-> res.r]

\* a * 2^k and floor(a / 2^s)
ShiftLeft(a, k) ==
    IF a = <<>> THEN <<>>
    ELSE [i \in 1..(k \div 15) |-> 0] \o MulSmall(a, 2^(k % 15))

ShiftRight(a, s) ==
    IF s \div 15 >= Len(a) THEN <<>>
    ELSE DivSmall(SubSeq(a, s \div 15 + 1, Len(a)), 2^(s % 15)).q

\* A non-negative double: significand m of exactly 53 bits and exponent e,
\* worth m * 2^e; zero has the empty significand.
F64(m, e) == [m |-> m, e |-> e]
F64Zero   == F64(<<>>, 0)

\* Round an exact value q * 2^e + (a fraction `frac` of the last place of q)
\* to 53 bits, where q has exactly 53 bits: frac is "below", "half" or
\* "above" one half, or "none".
RoundF64(q, e, frac) ==
    LET up == frac = "above" \/ (frac = "half" /\ q[1] % 2 = 1)
        q1 == IF up THEN AddOne(q) ELSE q
    IN  IF BitLen(q1) = 54 THEN F64(ShiftRight(q1, 1), e + 1) ELSE F64(q1, e)

\* The fraction the low s bits of a are of 2^s.
FracOf(a, s) ==
    IF s = 0 \/ LowBitsZero(a, s) THEN "none"
    ELSE IF BitAt(a, s - 1) = 0 THEN "below"
    ELSE IF LowBitsZero(a, s - 1) THEN "half"
    ELSE "above"

\* x * k for a double x and a small whole number k (itself a double)
F64MulSmall(x, k) ==
    IF x.m = <<>> \/ k = 0 THEN F64Zero
    ELSE LET prod == MulSmall(x.m, k)
             s    == BitLen(prod) - 53
         IN  RoundF64(ShiftRight(prod, s), x.e + s, FracOf(prod, s))

\* n / d for whole numbers n >= 0 and d > 0 (themselves doubles)
F64DivSmall(n, d) ==
    IF n = 0 THEN F64Zero
    ELSE LET nb == LimbsOf(n)
             k1 == 53 + BitLen(LimbsOf(d)) - BitLen(nb)
             d1 == DivSmall(ShiftLeft(nb, k1), d)
             k  == IF BitLen(d1.q) = 54 THEN k1 - 1 ELSE k1
             dv == IF k = k1 THEN d1 ELSE DivSmall(ShiftLeft(nb, k), d)
             frac == IF dv.r = 0 THEN "none"
                     ELSE IF 2 * dv.r < d THEN "below"
                     ELSE IF 2 * dv.r = d THEN "half"
                     ELSE "above"
         IN  RoundF64(dv.q, 0 - k, frac)

\* Math.floor(x) for a double x >= 0 below 2^31, as a whole number
F64Floor(x) ==
    IF x.m = <<>> THEN 0
    ELSE IF x.e >= 0 THEN IntOf(ShiftLeft(x.m, x.e))
    ELSE IntOf(ShiftRight(x.m, 0 - x.e))

\* The largest double below x, for x > 0 (normal range)
RECURSIVE Decrement(_)
Decrement(a) ==
    IF a[1] > 0 THEN <<a[1] - 1>> \o Tail(a)
    ELSE <<Limb - 1>> \o Decrement(Tail(a))

F64NextDown(x) ==
    LET m1 == Trim(Decrement(x.m))
    IN  IF BitLen(m1) = 53 THEN F64(m1, x.e)
        ELSE F64(AddOne(MulSmall(m1, 2)), x.e - 1)

\* x < y for doubles x, y >= 0
RECURSIVE LimbsLess(_, _, _)
LimbsLess(a, b, i) ==
    IF i = 0 THEN FALSE
    ELSE IF a[i] # b[i] THEN a[i] < b[i]
    ELSE LimbsLess(a, b, i - 1)

F64Less(x, y) ==
    IF y.m = <<>> THEN FALSE
    ELSE IF x.m = <<>> THEN TRUE
    ELSE IF x.e # y.e THEN x.e < y.e
    ELSE LimbsLess(x.m, y.m, 4)

\* 64-bit values explored for the 8-byte seeds: zero, one, 2^63, 2^64 - 1
\* and every value of up to eight bytes whose bytes are 0 or 255.
U64Inputs ==
    {BN_0, BN_1, BN_U64MAX,
     [neg |-> FALSE, mag |-> [i \in 1..8 |-> IF i = 8 THEN 128 ELSE 0]]}
    \cup { [neg |-> FALSE, mag |-> mag] :
             mag \in { s \in UNION {[1..n -> {0, 255}] : n \in 1..8} :
                         s[Len(s)] = 255 } }

\* The ledger reads an 8-byte seed back as a little-endian u64.
RECURSIVE StripZeros(_)
StripZeros(bytes) ==
    IF bytes # <<>> /\ bytes[Len(bytes)] = 0
    THEN StripZeros(SubSeq(bytes, 1, Len(bytes) - 1))
    ELSE bytes

fromLeBytes(bytes) == [neg |-> FALSE, mag |-> StripZeros(bytes)]

\* The project id seed of getProjectPDA and the count seed of getNftMintPDA.
EncodeProjectId ==
    \E projectId \in U64Inputs :
        /\ util' = [fn |-> "getProjectPDA", args |-> <<projectId>>,
                    result |-> getProjectPDA(projectId).seeds[2]]
        /\ UNCHANGED <<tierVars, pdaVars, ledgerVars>>

EncodeInvestmentCount ==
    \E count \in U64Inputs, investor \in Keys :
        /\ util' = [fn |-> "getNftMintPDA", args |-> <<count>>,
                    result |-> getNftMintPDA(PROJECT_ID, investor, count).seeds[4]]
        /\ UNCHANGED <<tierVars, pdaVars, ledgerVars>>

DecodeSeed ==
    /\ util.fn \in {"getProjectPDA", "getNftMintPDA"}
    /\ util' = [fn |-> "fromLeBytes", args |-> <<util.result>>,
                result |-> fromLeBytes(util.result),
                value |-> util.args[1]]
    /\ UNCHANGED <<tierVars, pdaVars, ledgerVars>>

MaxBps == 40            \* percent values of up to this many basis points

\* bps / 10000
bpsToPercent(bps) == F64DivSmall(bps, 10000)

\* Math.floor(percent * 10000)
percentToBps(percent) == F64Floor(F64MulSmall(percent, 10000))

\* Percent values written as a decimal with four places (0.0003, 0.2, ...),
\* which are the doubles nearest to a whole number of basis points, and the
\* doubles just below them.
WholeBps     == 0..MaxBps \cup {2000}
PercentWhole == {F64DivSmall(n, 10000) : n \in WholeBps}
PercentInputs ==
    PercentWhole \cup {F64NextDown(F64DivSmall(n, 10000)) : n \in WholeBps \ {0}}

PercentToBps ==
    \E percent \in PercentInputs :
        /\ util' = [fn |-> "percentToBps", args |-> <<percent>>,
                    result |-> percentToBps(percent)]
        /\ UNCHANGED <<tierVars, pdaVars, ledgerVars>>

\* The basis points just computed are converted back.
BpsToPercent ==
    /\ util.fn = "percentToBps"
    /\ util' = [fn |-> "bpsToPercent", args |-> <<util.result>>,
                result |-> bpsToPercent(util.result),
                percent |-> util.args[1]]
    /\ UNCHANGED <<tierVars, pdaVars, ledgerVars>>

-----------------------------------------------------------------------------
(* Account fetchers *)

\* What the ledger reader (program.account.<type>.fetch) throws: an Error
\* with a message, here the pieces of its text, or some other thrown value.
NoError         == [isError |-> FALSE, message |-> <<"none">>]
AccountNotFound == [isError |-> TRUE,
                    message |-> <<"Account does not exist", " or has no data">>]
ReadFailure     == [isError |-> TRUE,
                    message |-> <<"failed to get info about account">>]
ThrownValue     == [isError |-> FALSE, message |-> <<"timeout">>]

ReaderErrors == {AccountNotFound, ReadFailure, ThrownValue}

\* message.includes(text)
includes(message, text) == \E k \in 1..Len(message) : message[k] = text

\* The reader's answer for an address: the decoded record or a thrown error.
Decoded(data) == [ok |-> TRUE,  data |-> data, error |-> NoError]
Failed(error) == [ok |-> FALSE, data |-> NULL, error |-> error]

\* A decoded account is identified by its address.
Replies(address) == {Decoded(address)} \cup {Failed(e) : e \in ReaderErrors}

Returned(value) == [threw |-> FALSE, value |-> value, error |-> NoError]
Rethrown(error) == [threw |-> TRUE,  value |-> NULL,  error |-> error]

\* catch (error) { if (error instanceof Error &&
\*   error.message?.includes('Account does not exist')) return null;
\*   throw error; }
catch_anyError(error) == Returned(NULL)

catch(error) ==
    IF error.isError /\ includes(error.message, "Account does not exist")
    THEN Returned(NULL)
    ELSE Rethrown(error)

\* fetchProject, fetchProjectByPda, fetchMilestone, fetchInvestment,
\* fetchVote, fetchTgeEscrow: try { return await ....fetch(pda) } catch ...
fetchAccount(reply) ==
    IF reply.ok THEN Returned(reply.data) ELSE catch(reply.error)

AccountFetchers ==
    {"fetchProject", "fetchProjectByPda", "fetchMilestone", "fetchInvestment",
     "fetchVote", "fetchTgeEscrow"}

Fetch ==
    \E fetcher \in AccountFetchers, reply \in Replies(ProjectAddress) :
        /\ util' = [fn |-> fetcher, args |-> <<reply>>,
                    result |-> fetchAccount(reply)]
        /\ UNCHANGED <<tierVars, pdaVars, ledgerVars>>

\* Addresses of a project's pivot proposals: the active one named by the
\* project account, and the one derived from its pivot count.
ActivePivotAddress == ProjectAddress + 1
PivotAddress(pivotCount) == ProjectAddress + 10 + (pivotCount % 256)
PivotAddresses == {ActivePivotAddress, PivotAddress(0), PivotAddress(1)}

ProjectAccounts ==
    [activePivot : {NULL, ActivePivotAddress}, pivotCount : {0, 1}]

ProjectReplies ==
    {Decoded(p) : p \in ProjectAccounts} \cup {Failed(e) : e \in ReaderErrors}

\* The reader's answers for the pivot proposal addresses.
PivotReaders ==
    { r \in [PivotAddresses -> UNION {Replies(a) : a \in PivotAddresses}] :
        \A a \in PivotAddresses : r[a] \in Replies(a) }

fetchPivotProposal(projectReply, reader) ==
    IF ~projectReply.ok THEN catch(projectReply.error)
    ELSE LET projectAccount == projectReply.data
             pivotPda == IF projectAccount.activePivot # NULL
                         THEN projectAccount.activePivot
                         ELSE PivotAddress(
                                  IF projectAccount.pivotCount \in {NULL, 0}
                                  THEN 0 ELSE projectAccount.pivotCount)
         IN  fetchAccount(reader[pivotPda])

FetchPivotProposal ==
    \E projectReply \in ProjectReplies, reader \in PivotReaders :
        /\ util' = [fn |-> "fetchPivotProposal",
                    args |-> <<projectReply, reader>>,
                    result |-> fetchPivotProposal(projectReply, reader)]
        /\ UNCHANGED <<tierVars, pdaVars, ledgerVars>>

\* accountExists: try { await fetch(pda); return true } catch { return false }
accountExists(reply) ==
    IF reply.ok THEN Returned(TRUE) ELSE Returned(FALSE)

AccountExists ==
    \E reply \in Replies(ProjectAddress) :
        /\ util' = [fn |-> "accountExists", args |-> <<reply>>,
                    result |-> accountExists(reply)]
        /\ UNCHANGED <<tierVars, pdaVars, ledgerVars>>

-----------------------------------------------------------------------------
(* Transaction lookup: utils/index.ts getTransactionWithRetry *)

MaxRetries == 3         \* largest maxRetries handed to getTransactionWithRetry

Signatures == {1, 2, 3, 4}

\* maxRetries as the caller passes it; NULL is the omitted argument.
RetryInputs == {NULL} \cup (0 - 1)..MaxRetries

\* connection.getTransaction(signature, ...): the transaction (identified
\* by its signature), null while it is not yet visible, or a thrown error.
TransactionReplies(signature) ==
    {Decoded(signature), Decoded(NULL)} \cup {Failed(e) : e \in ReaderErrors}

\* Error(`Transaction ${signature} not found after ${maxRetries} retries`)
NotFoundAfter(signature, maxRetries) ==
    [isError |-> TRUE,
     message |-> <<"Transaction ", signature, " not found after ",
                   maxRetries, " retries">>]

\* for (let i = 0; i < maxRetries; i++)
loopCondition_inclusive(i, maxRetries) == i <= maxRetries

loopCondition(i, maxRetries) == i < maxRetries

\* The head of the loop with counter i: either the next getTransaction is
\* awaited, or the loop is over and the function throws.
loopHead(call, i) ==
    IF loopCondition(i, call.maxRetries)
    THEN [call EXCEPT !.i = i, !.pc = "getTransaction"]
    ELSE [call EXCEPT !.i = i, !.pc = "done",
              !.result = Rethrown(NotFoundAfter(call.signature,
                                                call.maxRetries))]

Running == util.fn = "getTransactionWithRetry" /\ util.pc # "done"

\* The call: maxRetries defaults to 3.
GetTransactionWithRetry ==
    /\ ~Running
    /\ \E signature \in Signatures, maxRetries \in RetryInputs :
          util' = loopHead([fn |-> "getTransactionWithRetry",
                            signature |-> signature,
                            maxRetries |-> Coalesce(maxRetries, 3),
                            i |-> 0, pc |-> "call", replies |-> <<>>,
                            waited |-> 0, result |-> Returned(NULL)], 0)
    /\ UNCHANGED <<tierVars, pdaVars, ledgerVars>>

\* const tx = await connection.getTransaction(...); if (tx) return tx;
GetTransaction ==
    /\ Running /\ util.pc = "getTransaction"
    /\ \E reply \in TransactionReplies(util.signature) :
          LET call == [util EXCEPT !.replies = Append(@, reply)] IN
          util' = IF ~reply.ok
                  THEN [call EXCEPT !.pc = "done",
                                    !.result = Rethrown(reply.error)]
                  ELSE IF reply.data # NULL
                  THEN [call EXCEPT !.pc = "done",
                                    !.result = Returned(reply.data)]
                  ELSE [call EXCEPT !.pc = "setTimeout"]
    /\ UNCHANGED <<tierVars, pdaVars, ledgerVars>>

\* await new Promise((resolve) => setTimeout(resolve, 1000 * (i + 1)));
\* then i++ and the loop condition.
SetTimeout ==
    /\ Running /\ util.pc = "setTimeout"
    /\ util' = loopHead([util EXCEPT !.waited = @ + 1000 * (util.i + 1)],
                        util.i + 1)
    /\ UNCHANGED <<tierVars, pdaVars, ledgerVars>>

-----------------------------------------------------------------------------
(* Instruction builders and the ledger writer: instructions/index.ts *)

\* The exported builders.  Each one derives its addresses, composes the
\* instruction and ends with a single "return getMethods(program)....rpc()".
Builders ==
    {"initializeAdmin", "transferAdmin", "acceptAdmin", "initializeProject",
     "submitForApproval", "approveProject", "createMilestone",
     "submitMilestone", "voteOnMilestone", "finalizeVoting",
     "claimMilestoneFunds", "resubmitMilestone", "setMilestoneDeadline",
     "extendMilestoneDeadline", "invest", "cancelInvestment", "proposePivot",
     "approvePivot", "withdrawFromPivot", "finalizePivot", "setTgeDate",
     "depositTokens", "claimTokens", "reportScam", "releaseHoldback",
     "checkAbandonment", "claimRefund", "claimInvestorTokens",
     "distributeTokens", "completeDistribution", "claimExitWindowRefund",
     "initializeFounderVesting", "claimVestedTokens",
     "forceCompleteDistribution", "claimMissedUnlock"}

\* The builders that await program.account.<type>.fetch(...) before they
\* compose: voteOnMilestone reads the milestone's voting round, proposePivot
\* and approvePivot read the project's pivot count and active pivot.
PreFetching == {"voteOnMilestone", "proposePivot", "approvePivot"}

\* What the ledger writer (.rpc()) answers: a signature or a thrown error.
RpcReplies == {Decoded(s) : s \in Signatures}
                 \cup {Failed(e) : e \in ReaderErrors}

\* .rpc(): the composed instruction set is handed to the ledger writer.
rpc(call) == [call EXCEPT !.pc = "rpc", !.submissions = @ + 1]

\* An awaited promise that rejects ends the async builder with that error.
reject(call, error) ==
    [call EXCEPT !.pc = "done", !.result = Rethrown(error)]

\* const account = await ....fetch(pda); ... return ....rpc();
afterFetch(call, reply) ==
    IF reply.ok THEN rpc(call) ELSE reject(call, reply.error)

\* return ....rpc();
afterRpc_retry(call, reply) ==
    IF reply.ok
    THEN [call EXCEPT !.pc = "done", !.result = Returned(reply.data)]
    ELSE rpc(call)

afterRpc(call, reply) ==
    IF reply.ok
    THEN [call EXCEPT !.pc = "done", !.result = Returned(reply.data)]
    ELSE reject(call, reply.error)

Building == util.fn = "builder" /\ util.pc # "done"

\* A builder is called and runs up to its first await.
CallBuilder ==
    /\ ~Building
    /\ \E name \in Builders :
          LET call == [fn |-> "builder", name |-> name, pc |-> "call",
                       replies |-> <<>>, submissions |-> 0,
                       result |-> Returned(NULL)] IN
          util' = IF name \in PreFetching
                  THEN [call EXCEPT !.pc = "fetch"]
                  ELSE rpc(call)
    /\ UNCHANGED <<tierVars, pdaVars, ledgerVars>>

\* The awaited account fetch settles.
FetchSettles ==
    /\ Building /\ util.pc = "fetch"
    /\ \E reply \in Replies(ProjectAddress) :
          util' = afterFetch(
                     [util EXCEPT !.replies =
                         Append(@, [step |-> "fetch", reply |-> reply])],
                     reply)
    /\ UNCHANGED <<tierVars, pdaVars, ledgerVars>>

\* The awaited submission settles.
RpcSettles ==
    /\ Building /\ util.pc = "rpc"
    /\ \E reply \in RpcReplies :
          util' = afterRpc(
                     [util EXCEPT !.replies =
                         Append(@, [step |-> "rpc", reply |-> reply])],
                     reply)
    /\ UNCHANGED <<tierVars, pdaVars, ledgerVars>>

-----------------------------------------------------------------------------
(* Pivots: proposePivot, approvePivot, withdrawFromPivot, finalizePivot *)

MaxPivots == 3          \* pivots finalized in the model

NoPivotTx == [instruction |-> "none", pivotProposal |-> NULL,
              signer |-> 0, result |-> "none"]

PivotInit ==
    /\ pivot = [pivotCount |-> 0, activePivot |-> NULL, state |-> "none",
                windowOver |-> FALSE, withdrawn |-> {}, finalized |-> NULL]
    /\ pivotTx = NoPivotTx

\* The address findProgramAddressSync returns for a pivot proposal's seeds.
PivotProposalAddress(d) == PivotAddress(d.seeds[3][1])

\* await program.account.project.fetch(projectPda): the decoded project.
projectAccount ==
    [activePivot |-> pivot.activePivot, pivotCount |-> pivot.pivotCount]

\* projectAccount.pivotCount || 0
orZero(n) == IF n \in {NULL, 0} THEN 0 ELSE n

proposePivot_nextCount(account) ==
    [instruction |-> "proposePivot",
     pivotProposal |-> PivotProposalAddress(
         getPivotProposalPDA(ProjectAddress, orZero(account.pivotCount) + 1))]

proposePivot(account) ==
    [instruction |-> "proposePivot",
     pivotProposal |-> PivotProposalAddress(
         getPivotProposalPDA(ProjectAddress, orZero(account.pivotCount)))]

approvePivot(account) ==
    [instruction |-> "approvePivot",
     pivotProposal |->
         IF account.activePivot # NULL
         THEN account.activePivot
         ELSE PivotProposalAddress(
                  getPivotProposalPDA(ProjectAddress,
                                      orZero(account.pivotCount)))]

withdrawFromPivot(pivotCount) ==
    [instruction |-> "withdrawFromPivot",
     pivotProposal |-> PivotProposalAddress(
         getPivotProposalPDA(ProjectAddress, pivotCount))]

finalizePivot(pivotCount) ==
    [instruction |-> "finalizePivot",
     pivotProposal |-> PivotProposalAddress(
         getPivotProposalPDA(ProjectAddress, pivotCount))]

\* The pivot proposal account the ledger expects in an instruction: the one
\* derived from the project and its pivot count.
ExpectedPivot == PivotAddress(pivot.pivotCount)

PivotTx(ix, signer, result) ==
    [instruction |-> ix.instruction, pivotProposal |-> ix.pivotProposal,
     signer |-> signer, result |-> result]

ProposePivot ==
    LET ix  == proposePivot(projectAccount)
        res == IF pivot.state # "none" THEN "PivotAlreadyProposed"
               ELSE IF ix.pivotProposal # ExpectedPivot THEN "ConstraintSeeds"
               ELSE "ok"
    IN  /\ pivotTx' = PivotTx(ix, 0, res)
        /\ pivot' = IF res = "ok"
                    THEN [pivot EXCEPT !.state = "pending",
                                       !.activePivot = ix.pivotProposal,
                                       !.windowOver = FALSE,
                                       !.withdrawn = {}]
                    ELSE pivot
        /\ UNCHANGED <<tierVars, pdaVars, projectVars, voteVars, callerVars,
                       util>>

ApprovePivot ==
    LET ix  == approvePivot(projectAccount)
        res == IF pivot.state = "none" THEN "NoPivotProposed"
               ELSE IF pivot.state # "pending" THEN "InvalidStateTransition"
               ELSE IF ix.pivotProposal # pivot.activePivot
                    THEN "ConstraintSeeds"
               ELSE "ok"
    IN  /\ pivotTx' = PivotTx(ix, 0, res)
        /\ pivot' = IF res = "ok"
                    THEN [pivot EXCEPT !.state = "approved"]
                    ELSE pivot
        /\ UNCHANGED <<tierVars, pdaVars, projectVars, voteVars, callerVars,
                       util>>

\* args.pivotCount is "Current pivot_count from project": the caller hands
\* in the count it reads from the project account.
WithdrawFromPivot ==
    \E investor \in Investors :
        LET ix  == withdrawFromPivot(projectAccount.pivotCount)
            res == IF pivot.state = "none" THEN "NoPivotProposed"
                   ELSE IF ix.pivotProposal # pivot.activePivot
                        THEN "ConstraintSeeds"
                   ELSE IF pivot.state # "approved" THEN "PivotNotApproved"
                   ELSE IF pivot.windowOver THEN "PivotWindowEnded"
                   ELSE IF investor \in pivot.withdrawn
                        THEN "AlreadyWithdrawnFromPivot"
                   ELSE "ok"
        IN  /\ pivotTx' = PivotTx(ix, investor, res)
            /\ pivot' = IF res = "ok"
                        THEN [pivot EXCEPT !.withdrawn = @ \cup {investor}]
                        ELSE pivot
            /\ UNCHANGED <<tierVars, pdaVars, projectVars, voteVars,
                           callerVars, util>>

\* The 7-day withdrawal window of the approved pivot ends.
PivotWindowEnds ==
    /\ pivot.state = "approved"
    /\ ~pivot.windowOver
    /\ pivot' = [pivot EXCEPT !.windowOver = TRUE]
    /\ UNCHANGED <<tierVars, pdaVars, projectVars, voteVars, callerVars,
                   util, pivotTx>>

FinalizePivot ==
    LET ix  == finalizePivot(projectAccount.pivotCount)
        res == IF pivot.state = "none" THEN "NoPivotProposed"
               ELSE IF ix.pivotProposal # pivot.activePivot
                    THEN "ConstraintSeeds"
               ELSE IF pivot.state # "approved" THEN "PivotNotApproved"
               ELSE IF ~pivot.windowOver THEN "PivotWindowNotEnded"
               ELSE "ok"
    IN  /\ pivot.pivotCount < MaxPivots
        /\ pivotTx' = PivotTx(ix, 0, res)
        /\ pivot' = IF res = "ok"
                    THEN [pivot EXCEPT !.state = "none",
                                       !.activePivot = NULL,
                                       !.pivotCount = @ + 1,
                                       !.windowOver = FALSE,
                                       !.finalized = ix.pivotProposal]
                    ELSE pivot
        /\ UNCHANGED <<tierVars, pdaVars, projectVars, voteVars, callerVars,
                       util>>

-----------------------------------------------------------------------------
(* Errors *)

ERROR_CODES ==
    [ InvalidStateTransition |-> 6000,
      ProjectNotInOpenState |-> 6001,
      ProjectNotInProgress |-> 6002,
      MilestoneNotUnderReview |-> 6003,
      VotingPeriodEnded |-> 6004,
      VotingPeriodNotEnded |-> 6005,
      MilestoneNotPassed |-> 6006,
      MilestoneAlreadyUnlocked |-> 6007,
      ProjectAlreadyFunded |-> 6008,
      ProjectNotFunded |-> 6009,
      UnauthorizedFounder |-> 6100,
      UnauthorizedAdmin |-> 6101,
      NotInvestor |-> 6102,
      AlreadyVoted |-> 6103,
      InvestmentBelowMinimum |-> 6200,
      FundingGoalExceeded |-> 6201,
      InvalidTier |-> 6202,
      CoolingOffPeriodActive |-> 6203,
      CoolingOffPeriodExpired |-> 6204,
      InvalidMilestoneIndex |-> 6300,
      MilestonePercentageInvalid |-> 6301,
      TotalPercentageExceeded |-> 6302,
      MilestoneNotInProgress |-> 6303,
      MilestoneNotApproved |-> 6304,
      TgeDateNotSet |-> 6400,
      TgeDateAlreadySet |-> 6401,
      TgeDateTooSoon |-> 6402,
      TgeDateTooLate |-> 6403,
      TgeNotReached |-> 6404,
      TokensAlreadyClaimed |-> 6405,
      InsufficientTokensDeposited |-> 6406,
      PivotAlreadyProposed |-> 6500,
      NoPivotProposed |-> 6501,
      PivotNotApproved |-> 6502,
      PivotWindowNotEnded |-> 6503,
      PivotWindowEnded |-> 6504,
      AlreadyWithdrawnFromPivot |-> 6505,
      RefundAlreadyClaimed |-> 6800,
      RefundNotAvailable |-> 6801,
      ProjectNotAbandoned |-> 6802,
      ScamReportPeriodEnded |-> 6900,
      ScamAlreadyReported |-> 6901,
      ScamNotConfirmed |-> 6902,
      HoldbackAlreadyReleased |-> 6903,
      HoldbackPeriodNotEnded |-> 6904 ]

ErrorNames == DOMAIN ERROR_CODES

\* The blocks of ERROR_CODES, as their comments head them.
ErrorCategories ==
    [ stateTransition |->
        {"InvalidStateTransition",
         "ProjectNotInOpenState",
         "ProjectNotInProgress",
         "MilestoneNotUnderReview",
         "VotingPeriodEnded",
         "VotingPeriodNotEnded",
         "MilestoneNotPassed",
         "MilestoneAlreadyUnlocked",
         "ProjectAlreadyFunded",
         "ProjectNotFunded"},
      authorization |->
        {"UnauthorizedFounder",
         "UnauthorizedAdmin",
         "NotInvestor",
         "AlreadyVoted"},
      investment |->
        {"InvestmentBelowMinimum",
         "FundingGoalExceeded",
         "InvalidTier",
         "CoolingOffPeriodActive",
         "CoolingOffPeriodExpired"},
      milestone |->
        {"InvalidMilestoneIndex",
         "MilestonePercentageInvalid",
         "TotalPercentageExceeded",
         "MilestoneNotInProgress",
         "MilestoneNotApproved"},
      tokenGeneration |->
        {"TgeDateNotSet",
         "TgeDateAlreadySet",
         "TgeDateTooSoon",
         "TgeDateTooLate",
         "TgeNotReached",
         "TokensAlreadyClaimed",
         "InsufficientTokensDeposited"},
      pivot |->
        {"PivotAlreadyProposed",
         "NoPivotProposed",
         "PivotNotApproved",
         "PivotWindowNotEnded",
         "PivotWindowEnded",
         "AlreadyWithdrawnFromPivot"},
      refund |->
        {"RefundAlreadyClaimed",
         "RefundNotAvailable",
         "ProjectNotAbandoned"},
      scamReport |->
        {"ScamReportPeriodEnded",
         "ScamAlreadyReported",
         "ScamNotConfirmed",
         "HoldbackAlreadyReleased",
         "HoldbackPeriodNotEnded"} ]

\* The range each block's comment reserves for it.
CategoryRange_overlapping ==
    [ stateTransition |-> <<6000, 6099>>,
      authorization |-> <<6000, 6199>>,
      investment |-> <<6200, 6299>>,
      milestone |-> <<6300, 6399>>,
      tokenGeneration |-> <<6400, 6499>>,
      pivot |-> <<6500, 6599>>,
      refund |-> <<6800, 6899>>,
      scamReport |-> <<6900, 6999>> ]

CategoryRange ==
    [ stateTransition |-> <<6000, 6099>>,
      authorization |-> <<6100, 6199>>,
      investment |-> <<6200, 6299>>,
      milestone |-> <<6300, 6399>>,
      tokenGeneration |-> <<6400, 6499>>,
      pivot |-> <<6500, 6599>>,
      refund |-> <<6800, 6899>>,
      scamReport |-> <<6900, 6999>> ]

ERROR_MESSAGES ==
    ERROR_CODES.InvalidStateTransition :>
        "Invalid project state transition" @@
    ERROR_CODES.ProjectNotInOpenState :>
        "Project must be in Open state to accept investments" @@
    ERROR_CODES.ProjectNotInProgress :>
        "Project must be InProgress to perform this action" @@
    ERROR_CODES.MilestoneNotUnderReview :>
        "Milestone must be under review to vote" @@
    ERROR_CODES.VotingPeriodEnded :>
        "Voting period has ended" @@
    ERROR_CODES.VotingPeriodNotEnded :>
        "Voting period has not ended yet" @@
    ERROR_CODES.MilestoneNotPassed :>
        "Milestone did not pass voting" @@
    ERROR_CODES.MilestoneAlreadyUnlocked :>
        "Milestone funds already unlocked" @@
    ERROR_CODES.ProjectAlreadyFunded :>
        "Project has already reached funding goal" @@
    ERROR_CODES.ProjectNotFunded :>
        "Project has not reached funding goal" @@
    ERROR_CODES.UnauthorizedFounder :>
        "Only the project founder can perform this action" @@
    ERROR_CODES.UnauthorizedAdmin :>
        "Only the admin can perform this action" @@
    ERROR_CODES.NotInvestor :>
        "You must be an investor to perform this action" @@
    ERROR_CODES.AlreadyVoted :>
        "You have already voted on this" @@
    ERROR_CODES.InvestmentBelowMinimum :>
        "Investment amount below minimum tier requirement" @@
    ERROR_CODES.FundingGoalExceeded :>
        "Investment would exceed funding goal" @@
    ERROR_CODES.InvalidTier :>
        "Invalid investment tier" @@
    ERROR_CODES.CoolingOffPeriodActive :>
        "Investment is within 24-hour cooling-off period" @@
    ERROR_CODES.CoolingOffPeriodExpired :>
        "Cooling-off period has expired, cannot cancel" @@
    ERROR_CODES.InvalidMilestoneIndex :>
        "Invalid milestone index" @@
    ERROR_CODES.MilestonePercentageInvalid :>
        "Milestone percentage must be between 1-100" @@
    ERROR_CODES.TotalPercentageExceeded :>
        "Total milestone percentages exceed 100%" @@
    ERROR_CODES.MilestoneNotInProgress :>
        "Milestone must be in progress" @@
    ERROR_CODES.MilestoneNotApproved :>
        "Milestone must be approved first" @@
    ERROR_CODES.TgeDateNotSet :>
        "TGE date has not been set" @@
    ERROR_CODES.TgeDateAlreadySet :>
        "TGE date has already been set" @@
    ERROR_CODES.TgeDateTooSoon :>
        "TGE date must be at least 15 days in the future" @@
    ERROR_CODES.TgeDateTooLate :>
        "TGE date must be within 90 days" @@
    ERROR_CODES.TgeNotReached :>
        "TGE date has not been reached" @@
    ERROR_CODES.TokensAlreadyClaimed :>
        "Tokens have already been claimed" @@
    ERROR_CODES.InsufficientTokensDeposited :>
        "Insufficient tokens deposited by founder" @@
    ERROR_CODES.PivotAlreadyProposed :>
        "A pivot is already pending" @@
    ERROR_CODES.NoPivotProposed :>
        "No pivot has been proposed" @@
    ERROR_CODES.PivotNotApproved :>
        "Pivot has not been approved by admin" @@
    ERROR_CODES.PivotWindowNotEnded :>
        "7-day withdrawal window has not ended" @@
    ERROR_CODES.PivotWindowEnded :>
        "7-day withdrawal window has ended" @@
    ERROR_CODES.AlreadyWithdrawnFromPivot :>
        "Already withdrawn from this pivot" @@
    ERROR_CODES.RefundAlreadyClaimed :>
        "Refund has already been claimed" @@
    ERROR_CODES.RefundNotAvailable :>
        "Refund is not available" @@
    ERROR_CODES.ProjectNotAbandoned :>
        "Project has not been abandoned" @@
    ERROR_CODES.ScamReportPeriodEnded :>
        "30-day scam report period has ended" @@
    ERROR_CODES.ScamAlreadyReported :>
        "Already reported this project for scam" @@
    ERROR_CODES.ScamNotConfirmed :>
        "Scam has not been confirmed" @@
    ERROR_CODES.HoldbackAlreadyReleased :>
        "Holdback has already been released" @@
    ERROR_CODES.HoldbackPeriodNotEnded :>
        "30-day holdback period has not ended"

\* A thrown value: an AnchorError (error.errorCode.number, error.errorMessage,
\* logs), another Error, a value String() can convert, or a value it cannot
\* (an object without a usable toString, on which String() throws TypeError).
ErrorValue(kind, code, message, logs) ==
    [kind |-> kind, code |-> code, message |-> message, logs |-> logs]

LedgerMessages == {"custom program error", ""}
LedgerLogs     == {<<>>, <<"Program log: AnchorError">>}

\* Codes the ledger reports: those of the taxonomy and some outside it.
ReportedCodes ==
    {ERROR_CODES[n] : n \in ErrorNames} \cup {0, 2006, 6010, 6600, 7000}

ThrownValues ==
    {ErrorValue("AnchorError", c, m, l) :
        c \in ReportedCodes, m \in LedgerMessages, l \in LedgerLogs}
    \cup {ErrorValue("Error", NULL, m, <<>>) :
            m \in {"Transaction simulation failed", ""}}
    \cup {ErrorValue("value", NULL, m, <<>>) : m \in {"timeout", "undefined"}}
    \cup {ErrorValue("unprintable", NULL, "", <<>>)}

Result(value)    == [threw |-> FALSE, value |-> value]
Exception(value) == [threw |-> TRUE,  value |-> value]

\* message = ERROR_MESSAGES[code] || error.error.errorMessage
fromAnchorError(error) ==
    LET code == error.code
        message == IF code \in DOMAIN ERROR_MESSAGES /\ ERROR_MESSAGES[code] # ""
                   THEN ERROR_MESSAGES[code]
                   ELSE error.message
    IN  ErrorValue("RaiseError", code, message, error.logs)

parseError(error) ==
    IF error.kind = "AnchorError" THEN Result(fromAnchorError(error))
    ELSE IF error.kind \in {"Error", "RaiseError"} THEN Result(error)
    ELSE IF error.kind = "unprintable"
    THEN Exception(ErrorValue("Error", NULL,
                              "Cannot convert object to primitive value", <<>>))
    ELSE Result(ErrorValue("Error", NULL, error.message, <<>>))

ParseError ==
    \E error \in ThrownValues :
        /\ util' = [fn |-> "parseError", args |-> <<error>>,
                    result |-> parseError(error)]
        /\ UNCHANGED <<tierVars, pdaVars, ledgerVars>>

-----------------------------------------------------------------------------
(* Specifications *)

Init ==
    /\ TierInit
    /\ PdaInit
    /\ FundInit
    /\ UtilInit
    /\ PivotInit

InitVoting ==
    /\ TierInit
    /\ PdaInit
    /\ VoteInit
    /\ UtilInit
    /\ PivotInit

\* Tier matching on its own.
NextTier ==
    \/ ChooseTiers
    \/ CallFindTierIndex

SpecTier == Init /\ [][NextTier]_vars

\* The address deriver on its own.
NextPda ==
    \/ DeriveProject \/ DeriveEscrow \/ DeriveMilestone \/ DeriveInvestment
    \/ DeriveVote \/ DerivePivotProposal \/ DeriveTgeEscrow
    \/ DeriveTgeEscrowVault \/ DeriveTokenVault \/ DeriveScamReport
    \/ DeriveAdminConfig \/ DeriveNftMint \/ DeriveProgramAuthority
    \/ DeriveTokenomics \/ DeriveTokenMint \/ DeriveVaultAuthority
    \/ DeriveInvestorVault \/ DeriveFounderVault \/ DeriveLpTokenVault
    \/ DeriveTreasuryVault \/ DeriveLpUsdcVault \/ DeriveFounderVesting

SpecPda == Init /\ [][NextPda]_vars

\* Funding and the project lifecycle, with concurrent investors.
NextFund ==
    \/ SubmitForApproval
    \/ ApproveProject
    \/ FetchProject
    \/ Invest
    \/ StartProgress
    \/ CheckAbandonment
    \/ CloseProject

SpecFund == Init /\ [][NextFund]_vars

\* Voting on the milestones of a funded project, all investors voting.
NextVote ==
    \/ SubmitMilestone
    \/ VoteOnMilestone(Investors, NumMilestones * (MaxRound + 1) * 3)
    \/ FinalizeVoting
    \/ ResubmitMilestone(MaxRound)
    \/ Tick

SpecVote == InitVoting /\ [][NextVote]_vars

\* Many reworks of one milestone, one investor voting, the ledger keeping a
\* single vote account.
NextRounds ==
    \/ SubmitMilestone
    \/ VoteOnMilestone({1}, 1)
    \/ FinalizeVoting
    \/ ResubmitMilestone(MaxRoundLong)
    \/ Tick

SpecRounds == InitVoting /\ [][NextRounds]_vars

\* Deadlines of the milestone in progress.
NextDeadline ==
    \/ SetMilestoneDeadline
    \/ ExtendMilestoneDeadline
    \/ PassTime

SpecDeadline == InitVoting /\ [][NextDeadline]_vars

\* Client-side deadline validation.
NextValidateDeadline ==
    \/ ValidateDeadline

SpecValidateDeadline == Init /\ [][NextValidateDeadline]_vars

\* Deadlines computed by the helpers and validated afterwards.
NextHelpers ==
    \/ CalculateDeadline
    \/ MinDeadline
    \/ ValidateComputed

SpecHelpers == Init /\ [][NextHelpers]_vars

\* Client-side validation of milestone percentages.
NextPercentages ==
    \/ ValidateMilestonePercentages

SpecPercentages == Init /\ [][NextPercentages]_vars

\* Percentage arithmetic.
NextPercentageOf ==
    \/ PercentageOf

SpecPercentageOf == Init /\ [][NextPercentageOf]_vars

\* Instructions with remaining accounts.
NextRemaining ==
    \/ DistributeTokens
    \/ ClaimRefund

SpecRemaining == Init /\ [][NextRemaining]_vars

\* Claims of milestone funds.
NextClaim ==
    \/ ClaimMilestoneFunds

SpecClaim == Init /\ [][NextClaim]_vars

\* 8-byte seeds written by the client and read back by the ledger.
NextSeeds ==
    \/ EncodeProjectId
    \/ EncodeInvestmentCount
    \/ DecodeSeed

SpecSeeds == Init /\ [][NextSeeds]_vars

\* Basis-point conversions.
NextBps ==
    \/ PercentToBps
    \/ BpsToPercent

SpecBps == Init /\ [][NextBps]_vars

NextRetry ==
    \/ GetTransactionWithRetry
    \/ GetTransaction
    \/ SetTimeout

SpecRetry == Init /\ [][NextRetry]_vars

\* The awaited promises settle: the connection answers or fails, and the
\* timer fires.
SpecRetryLive ==
    SpecRetry /\ WF_vars(GetTransaction) /\ WF_vars(SetTimeout)

NextBuilders ==
    \/ CallBuilder
    \/ FetchSettles
    \/ RpcSettles

SpecBuilders == Init /\ [][NextBuilders]_vars

NextPivot ==
    \/ ProposePivot
    \/ ApprovePivot
    \/ WithdrawFromPivot
    \/ PivotWindowEnds
    \/ FinalizePivot

SpecPivot == Init /\ [][NextPivot]_vars

\* Reads of ledger accounts.
NextAccounts ==
    \/ Fetch
    \/ FetchPivotProposal
    \/ AccountExists

SpecAccounts == Init /\ [][NextAccounts]_vars

\* Errors reaching the client.
NextErrors ==
    \/ ParseError

SpecErrors == Init /\ [][NextErrors]_vars

-----------------------------------------------------------------------------
(* Properties *)

\* C1: for a tier list sorted ascending and any amount, findTierIndex returns
\* the largest index whose per-lot amount is <= amount, and returns null
\* exactly when the amount is below the smallest per-lot amount (which
\* includes the empty list).
C1_FindTierIndexLargestMatch ==
    tierResult # NoCall =>
        /\ tierResult = NULL <=> (tiers = <<>> \/ tierAmount < tiers[1])
        /\ tierResult # NULL =>
              /\ tierResult \in 0..(Len(tiers) - 1)
              /\ tiers[tierResult + 1] <= tierAmount
              /\ \A j \in (tierResult + 1)..(Len(tiers) - 1) :
                    tiers[j + 1] > tierAmount

\* tiers [1, 2, 4] and amount 3 (the shape of [100, 500, 1000] and 750).
C1_Witness ==
    /\ tiers = <<1, 2, 4>>
    /\ tierAmount = 3
    /\ tierResult = 1

InU64(bn) == ~bn.neg /\ Len(bn.mag) <= 8

InU8(n) == n \in 0..255

\* The arguments of a recorded call respect the byte widths of its seeds.
WellFormedCall(d) ==
    CASE d.kind \in {"project", "escrow"}          -> InU64(d.args[1])
      [] d.kind \in {"milestone", "pivotProposal"} -> InU8(d.args[2])
      [] d.kind = "vote"                           -> InU8(d.args[3])
      [] d.kind = "nftMint"    -> InU64(d.args[1]) /\ InU64(d.args[3])
      [] OTHER                                     -> TRUE

Made(d) == d.kind # "none" /\ d.ok

\* C2: two derivations of different entity kinds never hand the same seeds
\* to the address function, neither as a list of seeds nor as the
\* concatenated byte string, whatever the seed values are.
C2_KindsNeverCollide ==
    (Made(derivA) /\ Made(derivB) /\ derivA.kind # derivB.kind) =>
        /\ derivA.seeds # derivB.seeds
        /\ Concat(derivA.seeds) # Concat(derivB.seeds)

\* A milestone and a pivot proposal derived from the same project address
\* and the same 1-byte value.
C2_Witness ==
    /\ derivA.kind = "pivotProposal" /\ derivA.ok
    /\ derivB.kind = "milestone" /\ derivB.ok
    /\ derivA.args = <<1, 0>>
    /\ derivB.args = <<1, 0>>

\* C3: within one entity kind, two well-formed seed tuples derive the same
\* seeds exactly when they are the same tuple, and both derivations return.
C3_InjectiveWithinKind ==
    (/\ derivA.kind # "none"
     /\ derivA.kind = derivB.kind
     /\ WellFormedCall(derivA)
     /\ WellFormedCall(derivB)) =>
        /\ derivA.ok /\ derivB.ok
        /\ derivA.args = derivB.args <=> derivA.seeds = derivB.seeds

\* Two vote derivations that differ in the voting round only.
C3_Witness ==
    /\ derivA.kind = "vote" /\ derivB.kind = "vote"
    /\ derivA.args = <<1, 2, 1>>
    /\ derivB.args = <<1, 2, 0>>
    /\ derivA.seeds # derivB.seeds

\* C4 (as claimed): a derivation whose seed violates its byte width fails and
\* hands nothing to the address function.
C4_MalformedSeedFails ==
    /\ (derivA.kind # "none" /\ ~WellFormedCall(derivA)) => ~derivA.ok
    /\ (derivB.kind # "none" /\ ~WellFormedCall(derivB)) => ~derivB.ok

\* C5 (as claimed): a voter records at most one vote per round, a vote is
\* refused as AlreadyVoted only when the voter has voted in the milestone's
\* current round, and after any number of reworks the address voteOnMilestone
\* derives for a voter who has not voted in the current round is a fresh one.
C5_FreshVoteAddressEveryRound ==
    /\ \A a, b \in voteAccounts :
          (a.milestone = b.milestone /\ a.voter = b.voter /\ a.round = b.round)
              => a = b
    /\ (lastTx.op = "voteOnMilestone" /\ lastTx.result = "AlreadyVoted") =>
          \E a \in voteAccounts : a.voter = lastTx.signer /\ a.round = lastTx.at
    /\ \A i \in MilestoneIndexes, v \in Investors :
          (\A a \in voteAccounts :
               ~(a.milestone = i /\ a.voter = v
                    /\ a.round = milestones[i].votingRound))
          => \A a \in voteAccounts :
                a.address # voteOnMilestone(v, i, "good").vote.seeds

\* C6 (as claimed): an invest instruction is never composed with the
\* investment count of a slot the ledger has already consumed.
C6_InvestUsesFreshCount ==
    lastTx.op = "invest" => ~(lastTx.n < lastTx.at)

RECURSIVE SumWeight(_)
SumWeight(S) ==
    IF S = {} THEN 0
    ELSE LET a == CHOOSE x \in S : TRUE IN a.weight + SumWeight(S \ {a})

\* The votes cast on milestone i in its current voting round.
RoundVotes(i) ==
    {a \in voteAccounts :
        a.milestone = i /\ a.round = milestones[i].votingRound}

\* C7: a milestone leaves UnderReview only once the voting window is over,
\* and it becomes Passed exactly when the weight of the Good votes of the
\* round is strictly more than half of the weight cast, Failed otherwise
\* (a tie included).
C7_StrictMajorityByWeight ==
    [][\A i \in MilestoneIndexes :
          (milestones[i].state = "underReview"
              /\ milestones'[i].state # "underReview") =>
             LET yes   == SumWeight({a \in RoundVotes(i) : a.choice = "good"})
                 total == SumWeight(RoundVotes(i))
             IN  /\ now >= milestones[i].votingEndsAt
                 /\ milestones'[i].state =
                       IF 2 * yes > total THEN "passed" ELSE "failed"]_vars

\* The first milestone failed on a 2 : 2 tie in round 0 and, after a rework,
\* passed in round 1 with one Good vote of weight 9 against two Bad votes of
\* weight 2 each.
C7_Witness ==
    /\ milestones[0].state = "passed"
    /\ milestones[0].votingRound = 1
    /\ milestones[0].yesVotes = 9
    /\ milestones[0].noVotes = 4
    /\ milestones[0].voterCount = 3
    /\ {<<a.voter, a.choice>> : a \in {b \in voteAccounts : b.round = 0}}
          = {<<2, "good">>, <<3, "bad">>}

ProjectChain == <<"draft", "pendingApproval", "open", "funded", "inProgress">>

ProjectTerminal == {"completed", "abandoned", "failed", "tgeFailed", "cancelled"}

\* C10: the project state changes only to the next state of the chain
\* Draft, PendingApproval, Open, Funded, InProgress, or from InProgress to a
\* terminal state; a terminal state is never left.
C10_ProjectLifecycleOrder ==
    [][pstate' # pstate =>
          \/ \E k \in 1..(Len(ProjectChain) - 1) :
                pstate = ProjectChain[k] /\ pstate' = ProjectChain[k + 1]
          \/ pstate = "inProgress" /\ pstate' \in ProjectTerminal]_vars

\* A project that went through the whole chain and ended as TGEFailed.
C10_Witness ==
    /\ pstate = "tgeFailed"
    /\ lastTx.op = "closeProject"
    /\ amountRaised >= FundingGoal
    /\ milestones[0].state = "inProgress"

\* A step of resubmitMilestone on milestone i.
ResubmitStep(i) ==
    /\ lastTx'.op = "resubmitMilestone"
    /\ lastTx'.n = i
    /\ (lastTx' # lastTx \/ milestones' # milestones)

\* C11: a rework of a Failed milestone moves it to InProgress with yes/no
\* totals and voter count at zero and the voting round one higher, the other
\* milestones and the project's consecutive-failure counter untouched; on a
\* milestone that is not Failed it is refused and nothing changes.
C11_ReworkFrame ==
    [][\A i \in MilestoneIndexes :
          ResubmitStep(i) =>
             IF milestones[i].state = "failed"
             THEN /\ lastTx'.result = "ok"
                  /\ milestones'[i].state = "inProgress"
                  /\ milestones'[i].yesVotes = 0
                  /\ milestones'[i].noVotes = 0
                  /\ milestones'[i].voterCount = 0
                  /\ milestones'[i].votingRound = milestones[i].votingRound + 1
                  /\ \A j \in MilestoneIndexes \ {i} :
                        milestones'[j] = milestones[j]
                  /\ consecutiveFailures' = consecutiveFailures
                  /\ UNCHANGED <<pstate, amountRaised, voteAccounts>>
             ELSE /\ lastTx'.result # "ok"
                  /\ UNCHANGED <<projectVars, voteVars>>]_vars

\* The first milestone, failed with votes cast, has just been reworked:
\* round 1, tallies cleared, the failure still counted.
C11_Witness ==
    /\ lastTx.op = "resubmitMilestone" /\ lastTx.result = "ok"
    /\ milestones[0].state = "inProgress"
    /\ milestones[0].votingRound = 1
    /\ milestones[0].voterCount = 0
    /\ consecutiveFailures = 1
    /\ \E a \in voteAccounts : a.round = 0

\* C12: the extension count of a milestone never exceeds 3, and an extension
\* attempted when three have been made fails as exhausted, leaving deadline
\* and count as they were.
C12_ExtensionCountAtMostThree ==
    /\ [](\A i \in MilestoneIndexes : milestones[i].extensionCount <= 3)
    /\ [][\A i \in MilestoneIndexes :
            (lastTx'.op = "extendMilestoneDeadline" /\ lastTx'.n = i
                /\ lastTx'.amount = 3 /\ milestones[i].extensionCount = 3) =>
               /\ lastTx'.result = "DeadlineExtensionExhausted"
               /\ milestones'[i] = milestones[i]]_vars

\* A fourth extension of the first milestone, to a later deadline and before
\* the current one passed, has just been refused.
C12_Witness ==
    /\ lastTx.op = "extendMilestoneDeadline"
    /\ lastTx.result = "DeadlineExtensionExhausted"
    /\ milestones[0].extensionCount = 3
    /\ lastTx.at > milestones[0].deadline
    /\ now < milestones[0].deadline

\* The deadline is a number of seconds that lies above / below the bound.
\* A magnitude of more than four bytes is above every bound of the model.
BNAbove(bn, bound) ==
    ~bn.neg /\ (Len(bn.mag) > 4 \/ Value256(bn.mag) > bound)

BNBelow(bn, bound) ==
    \/ bn.neg /\ bn.mag # <<>>
    \/ Len(bn.mag) <= 4 /\ Value256(bn.mag) < bound

\* C13 (as claimed): validateDeadline(deadline, isDev) reports valid exactly
\* when now + min <= deadline <= now + one year (min 60 s in dev mode, 7 days
\* in production); below the lower bound it returns the 'at least ... from
\* now' error and above the upper bound the 'within 1 year' error.
C13_ValidateDeadlineBounds ==
    util.fn = "validateDeadline" =>
        LET deadline == util.args[1]
            isDev    == util.args[2]
            lo == util.args[3] + (IF isDev THEN 60 ELSE 604800)
            hi == util.args[3] + 31536000
            r  == util.result
        IN  /\ ~r.threw
            /\ r.valid <=> (~BNBelow(deadline, lo) /\ ~BNAbove(deadline, hi))
            /\ BNBelow(deadline, lo) =>
                  r.error = (IF isDev
                             THEN "Deadline must be at least 60 seconds from now"
                             ELSE "Deadline must be at least 7 days from now")
            /\ BNAbove(deadline, hi) =>
                  r.error = "Deadline must be within 1 year from now"

\* The sum of a list of numbers.
RECURSIVE Sum(_)
Sum(s) == IF s = <<>> THEN 0 ELSE s[Len(s)] + Sum(SubSeq(s, 1, Len(s) - 1))

\* C14: validateMilestonePercentages(percentages) returns true exactly when
\* the percentages sum to 100; the empty list fails.
C14_ValidExactlyWhenSumIs100 ==
    util.fn = "validateMilestonePercentages" =>
        /\ util.result <=> (Sum(util.args) = 100)
        /\ util.args = <<>> => ~util.result

\* [30, 40, 30] has been validated and passed.
C14_Witness ==
    /\ util.fn = "validateMilestonePercentages"
    /\ util.args = <<30, 40, 30>>
    /\ util.result

\* C15 (as claimed): every percentage set that passes
\* validateMilestonePercentages has each percentage p with 0 < p <= 100 and
\* the percentages summing to 100.
C15_ValidatedSetMeetsInvariant ==
    (util.fn = "validateMilestonePercentages" /\ util.result) =>
        /\ \A k \in 1..Len(util.args) :
              0 < util.args[k] /\ util.args[k] <= 100
        /\ Sum(util.args) = 100

\* C16: for amount >= 0 and an integer percentage in 0..100,
\* percentageOf(amount, pct) is the floor of amount * (pct * 100) / 10000:
\* the largest integer r with r * 10000 <= amount * pct * 100; it is never
\* rounded up and never exceeds amount.
C16_PercentageOfTruncates ==
    util.fn = "percentageOf" =>
        LET amount == util.args[1]
            pct    == util.args[2]
            r      == util.result
        IN  /\ r * 10000 <= amount * (pct * 100)
            /\ amount * (pct * 100) < (r + 1) * 10000
            /\ r <= amount
            /\ (amount = 1000 /\ pct = 20) => r = 200

\* percentageOf has been applied where the exact quotient has a fractional
\* part of one half or more, so that rounding would have gone up.
C16_Witness ==
    /\ util.fn = "percentageOf"
    /\ (util.args[1] * (util.args[2] * 100)) % 10000 >= 5000
    /\ util.result < util.args[1]

\* The reader's last answer in a fetcher call: the answer for the account
\* the fetcher returns, or the failure that stopped it before.
FinalReply ==
    IF util.fn = "fetchPivotProposal"
    THEN LET projectReply == util.args[1]
             reader       == util.args[2]
         IN  IF ~projectReply.ok THEN projectReply
             ELSE IF projectReply.data.activePivot # NULL
             THEN reader[projectReply.data.activePivot]
             ELSE reader[PivotAddress(projectReply.data.pivotCount)]
    ELSE util.args[1]

ReportsAbsent(reply) == ~reply.ok /\ reply.error = AccountNotFound

\* C17: each single-account fetcher returns the decoded record when the
\* account exists, returns null exactly when the reader reports that the
\* account does not exist, hands every other reader failure to the caller
\* unchanged, and never writes to the ledger.
C17_FetchNullOnlyWhenAbsent ==
    /\ [](util.fn \in AccountFetchers \cup {"fetchPivotProposal"} =>
            /\ FinalReply.ok => util.result = Returned(FinalReply.data)
            /\ (~util.result.threw /\ util.result.value = NULL)
                  <=> ReportsAbsent(FinalReply)
            /\ (~FinalReply.ok /\ ~ReportsAbsent(FinalReply)) =>
                  util.result = Rethrown(FinalReply.error))
    /\ [][util'.fn \in AccountFetchers \cup {"fetchPivotProposal"} =>
            UNCHANGED ledgerVars]_vars

\* fetchPivotProposal read the project, which names no active pivot, and the
\* read of the pivot proposal derived from the pivot count failed with a
\* failure other than absence, which reached the caller.
C17_Witness ==
    /\ util.fn = "fetchPivotProposal"
    /\ util.args[1].ok
    /\ util.args[1].data.activePivot = NULL
    /\ util.result = Rethrown(ReadFailure)

\* C18 (as claimed): accountExists returns true exactly when the account
\* exists and false only when it is absent; any other read failure reaches
\* the caller and is never reported as absence.
C18_AccountExistsPropagatesFailure ==
    util.fn = "accountExists" =>
        LET reply == util.args[1] IN
        /\ reply.ok <=> util.result = Returned(TRUE)
        /\ util.result = Returned(FALSE) => ReportsAbsent(reply)
        /\ (~reply.ok /\ ~ReportsAbsent(reply)) =>
              util.result = Rethrown(reply.error)

\* C19 (as claimed): for every AnchorError with code c, parseError returns a
\* RaiseError with code c, with the message ERROR_MESSAGES[c] when c is in
\* the taxonomy and the ledger's message otherwise, and with the ledger's
\* logs; for any other thrown value it returns an Error (the same one, or a
\* new one built from the value) and never throws.
C19_ParseErrorSurfacesLedgerFailure ==
    util.fn = "parseError" =>
        LET error == util.args[1]
            r     == util.result
        IN  /\ ~r.threw
            /\ error.kind = "AnchorError" =>
                  /\ r.value.kind = "RaiseError"
                  /\ r.value.code = error.code
                  /\ r.value.message =
                        (IF \E n \in ErrorNames : ERROR_CODES[n] = error.code
                         THEN ERROR_MESSAGES[error.code]
                         ELSE error.message)
                  /\ r.value.logs = error.logs
            /\ error.kind = "Error" => r.value = error
            /\ error.kind \notin {"AnchorError", "Error"} =>
                  r.value.kind = "Error"

\* C20: every code of ERROR_CODES lies in the range reserved for its
\* category, the ranges are pairwise disjoint, no two error names share a
\* code, and every code has an entry in ERROR_MESSAGES, which is the message
\* a failure reported with that code is surfaced with.
C20_ErrorTaxonomy ==
    /\ (util.fn = "parseError" /\ util.args[1].kind = "AnchorError"
           /\ \E n \in ErrorNames : ERROR_CODES[n] = util.args[1].code) =>
          util.result.value.message = ERROR_MESSAGES[util.args[1].code]
    /\ UNION {ErrorCategories[c] : c \in DOMAIN ErrorCategories} = ErrorNames
    /\ \A c \in DOMAIN ErrorCategories : \A n \in ErrorCategories[c] :
          CategoryRange[c][1] <= ERROR_CODES[n]
              /\ ERROR_CODES[n] <= CategoryRange[c][2]
    /\ \A c, d \in DOMAIN CategoryRange :
          c # d => \/ CategoryRange[c][2] < CategoryRange[d][1]
                   \/ CategoryRange[d][2] < CategoryRange[c][1]
    /\ \A n, m \in ErrorNames : ERROR_CODES[n] = ERROR_CODES[m] => n = m
    /\ \A n \in ErrorNames : ERROR_CODES[n] \in DOMAIN ERROR_MESSAGES

\* The ledger reported the last code of the last category and parseError
\* surfaced it with the taxonomy's message for it.
C20_Witness ==
    /\ util.fn = "parseError"
    /\ util.args[1].kind = "AnchorError"
    /\ util.args[1].code = ERROR_CODES.HoldbackPeriodNotEnded
    /\ util.result.value.message = "30-day holdback period has not ended"

\* C29: for every whole number of days and each mode, the deadline
\* calculateDeadline returns at clock value now lies in
\* [now + min, now + 31,536,000] (min 60 in dev mode, 604,800 in production)
\* and validateDeadline accepts it in the same mode at the same clock value;
\* likewise for minDeadline.
C29_HelperDeadlineIsValid ==
    /\ util.fn \in {"calculateDeadline", "minDeadline"} =>
          LET lo == util.args[3] + (IF util.args[2] THEN 60 ELSE 604800)
              hi == util.args[3] + 31536000
          IN  ~BNBelow(util.result, lo) /\ ~BNAbove(util.result, hi)
    /\ (util.fn = "validateDeadline" /\ util.delay = 0) =>
          util.result = Valid

\* calculateDeadline was asked for more than a year in production mode, and
\* the capped deadline it returned was validated at the same clock value.
C29_Witness ==
    /\ util.fn = "validateDeadline"
    /\ util.helper = "calculateDeadline"
    /\ util.days = 366
    /\ ~util.args[2]
    /\ util.delay = 0
    /\ util.result = Valid

\* C30 (as claimed): the deadline minDeadline or calculateDeadline returned
\* at clock value t is still accepted by validateDeadline in the same mode
\* at clock value t + 1.
C30_HelperDeadlineValidOneSecondLater ==
    (util.fn = "validateDeadline" /\ util.delay = 1) => util.result = Valid

\* C24 (as claimed): bpsToPercent(percentToBps(p)) never exceeds p, and
\* equals p when p is a whole number of basis points; percentToBps(0.2) is
\* 2000 and bpsToPercent(2000) is 0.2.
C24_BpsRoundTripNeverExceeds ==
    /\ (util.fn = "percentToBps" /\ util.args[1] = F64DivSmall(2, 10)) =>
          util.result = 2000
    /\ util.fn = "bpsToPercent" =>
          /\ ~F64Less(util.percent, util.result)
          /\ util.percent \in PercentWhole => util.result = util.percent
          /\ util.args[1] = 2000 => util.result = F64DivSmall(2, 10)

\* C23: for every v in 0..2^64-1, zero and 2^64-1 included, the 8-byte
\* little-endian seed written for a project id or an investment count is
\* eight bytes long and reads back little-endian as v.
C23_SeedRoundTrip ==
    /\ util.fn \in {"getProjectPDA", "getNftMintPDA"} => Len(util.result) = 8
    /\ util.fn = "fromLeBytes" => util.result = util.value

\* The seed of 2^64 - 1 has been written and read back.
C23_Witness ==
    /\ util.fn = "fromLeBytes"
    /\ util.value = BN_U64MAX
    /\ util.args[1] = <<255, 255, 255, 255, 255, 255, 255, 255>>
    /\ util.result = BN_U64MAX

\* The address of the project's milestone with index j: one key per index.
MilestoneKey(j) == ProjectAddress + 1 + j

\* C25: claimMilestoneFunds passes as next-milestone account the supplied
\* nextMilestonePda when one is given; otherwise, when nextMilestoneDeadline
\* is above 0, the address of the project's milestone milestoneIndex + 1;
\* otherwise none.  The claimed milestone is always the one at
\* (project, milestoneIndex).
C25_NextMilestoneChoice ==
    util.fn = "claimMilestoneFunds" =>
        LET milestoneIndex == util.args[1]
            deadline       == util.args[2]
            supplied       == util.args[3]
            positive       == ~deadline.neg /\ deadline.mag # <<>>
        IN  /\ util.result.milestone = MilestoneKey(milestoneIndex)
            /\ supplied # NULL => util.result.nextMilestone = supplied
            /\ (supplied = NULL /\ positive) =>
                  util.result.nextMilestone = MilestoneKey(milestoneIndex + 1)
            /\ (supplied = NULL /\ ~positive) =>
                  util.result.nextMilestone = NULL

\* The final milestone was claimed with deadline 0 and no next milestone
\* supplied: the instruction names no next-milestone account.
C25_Witness ==
    /\ util.fn = "claimMilestoneFunds"
    /\ util.args = <<MAX_MILESTONES - 1, BN_0, NULL>>
    /\ util.result.nextMilestone = NULL
    /\ util.result.milestone = MilestoneKey(MAX_MILESTONES - 1)

\* C22 (as claimed): one distributeTokens call passes at most 10
\* (investment, investor token account) pairs as remaining accounts, in
\* input order with the investment first in each pair; a larger batch is not
\* submitted.
C22_BatchAtMostTen ==
    util.fn = "distributeTokens" =>
        LET batch == util.args[1]
            remaining   == util.result.remainingAccounts
        IN  /\ Len(batch) > 10 => ~util.result.submitted
            /\ util.result.submitted =>
                  /\ Len(remaining) <= 2 * 10
                  /\ Len(remaining) = 2 * Len(batch)
                  /\ \A i \in 1..Len(batch) :
                        /\ remaining[2 * i - 1].pubkey =
                               batch[i].investmentPda
                        /\ remaining[2 * i].pubkey =
                               batch[i].investorTokenAccount

\* C26: claimRefund passes as remaining accounts exactly the project's
\* milestone addresses of indices 0 .. milestoneCount - 1, in ascending
\* order, each read-only and non-signer; with milestoneCount omitted it
\* passes exactly one account, milestone 0.
C26_RefundMilestoneAccounts ==
    util.fn = "claimRefund" =>
        LET milestoneCount == util.args[1]
            n         == IF milestoneCount = NULL THEN 1 ELSE milestoneCount
            remaining == util.result.remainingAccounts
        IN  /\ Len(remaining) = n
            /\ \A i \in 1..n :
                  /\ remaining[i].pubkey = MilestoneKey(i - 1)
                  /\ ~remaining[i].isWritable
                  /\ ~remaining[i].isSigner

\* A refund was claimed on a project with the largest number of milestones.
C26_Witness ==
    /\ util.fn = "claimRefund"
    /\ util.args[1] = MAX_MILESTONES
    /\ Len(util.result.remainingAccounts) = MAX_MILESTONES
    /\ util.result.remainingAccounts[MAX_MILESTONES].pubkey =
           MilestoneKey(MAX_MILESTONES - 1)

\* C28: getTransactionWithRetry always terminates; it makes at most
\* maxRetries fetch attempts; every attempt before the last one returned
\* empty, so the first non-empty result is returned and a failed attempt is
\* propagated at once; and it fails with "not found after maxRetries
\* retries" exactly when maxRetries attempts (none for maxRetries <= 0) all
\* returned empty.
Attempts == Len(util.replies)

C28_RetrySafe ==
    util.fn = "getTransactionWithRetry" =>
        /\ Attempts <= Max(util.maxRetries, 0)
        /\ \A k \in 1..(Attempts - 1) : util.replies[k] = Decoded(NULL)
        /\ util.pc = "done" =>
              LET last == IF Attempts = 0 THEN Decoded(NULL)
                          ELSE util.replies[Attempts] IN
              /\ ~last.ok => util.result = Rethrown(last.error)
              /\ last.ok /\ last.data # NULL =>
                    util.result = Returned(last.data)
              /\ last = Decoded(NULL) =>
                    /\ Attempts = Max(util.maxRetries, 0)
                    /\ util.result =
                          Rethrown(NotFoundAfter(util.signature,
                                                 util.maxRetries))
        /\ util.pc # "done" =>
              (Attempts = 0 \/ util.replies[Attempts] = Decoded(NULL))

C28_RetryTerminates ==
    /\ []C28_RetrySafe
    /\ Running ~> ~Running

C28_Witness ==
    /\ util.fn = "getTransactionWithRetry"
    /\ util.pc = "done"
    /\ util.maxRetries = MaxRetries
    /\ Attempts = MaxRetries
    /\ util.result = Rethrown(NotFoundAfter(util.signature, MaxRetries))

\* C21: a builder hands its instruction set to the ledger writer at most
\* once per call; a failed pre-fetch or a failed submission is the last
\* thing the call awaits and its error is the call's error, unchanged;
\* nothing is submitted after a failed pre-fetch; a call that ends without
\* a failure submitted exactly once and returns the writer's signature.
FailedSteps ==
    {k \in 1..Len(util.replies) : ~util.replies[k].reply.ok}

C21_SubmitsAtMostOnce ==
    util.fn = "builder" =>
        /\ util.submissions <= 1
        /\ \A k \in FailedSteps :
              /\ k = Len(util.replies)
              /\ util.pc = "done"
              /\ util.result = Rethrown(util.replies[k].reply.error)
              /\ util.replies[k].step = "fetch" => util.submissions = 0
        /\ (util.pc = "done" /\ FailedSteps = {}) =>
              /\ util.submissions = 1
              /\ util.result =
                    Returned(util.replies[Len(util.replies)].reply.data)

C21_Witness ==
    /\ util.fn = "builder"
    /\ util.name = "voteOnMilestone"
    /\ util.pc = "done"
    /\ util.submissions = 0
    /\ util.replies = <<[step |-> "fetch", reply |-> Failed(ReadFailure)]>>
    /\ util.result = Rethrown(ReadFailure)

=============================================================================
